---- MODULE Spec2Model ----
(***************************************************************************)
(* active-storage: the MultiStore registry, the Mirror fan-out executor    *)
(* and the Store drivers they replay operations on.                        *)
(*                                                                         *)
(* Strings that are compared for order (store names) are sequences of      *)
(* their UTF-8 bytes, so that the BTreeMap order is computed.  Paths are    *)
(* sequences of components, as std::path::Path compares them.               *)
(***************************************************************************)
EXTENDS Integers, Sequences, FiniteSets, TLC

\* ---------------------------------------------------------------- bounds
\* longest membership list handed to add_mirrors
MaxMembers == 2
\* longest Vec the in-memory driver keeps for one directory
MaxDirLen == 2

\* ---------------------------------------------------------------- values
\* "primary", "a", "z" as UTF-8 bytes
PRIMARY == <<112, 114, 105, 109, 97, 114, 121>>
NameA == <<97>>
NameZ == <<122>>
StoreNames == {NameA, PRIMARY, NameZ}
GroupNames == {"foo", "bar"}

\* "t", "d/t" and the directory "d"
FilePaths == {<<"d", "t">>}
DirPaths == {<<"d">>}
\* b"c"
ContentSet == {<<99>>}

\* Option<T>: None, or Some(x) holding one value
None == <<>>
Some(x) == <<x>>
Unwrap(o) == o[1]
Ok == [ok |-> TRUE]
Err(e) == [ok |-> FALSE, err |-> e]

\* ---------------------------------------------------------------- helpers
EmptyMap == <<>>
Put(f, k, v) == [x \in (DOMAIN f) \cup {k} |-> IF x = k THEN v ELSE f[x]]
Retain(f, keep) == [x \in {k \in DOMAIN f : k \in keep} |-> f[x]]

\* Path::parent: the path without its last component, None for the empty path
Parent(p) == IF p = <<>> THEN None ELSE Some(SubSeq(p, 1, Len(p) - 1))

\* Path::starts_with: component-wise prefix
StartsWith(p, base) ==
    /\ Len(base) <= Len(p)
    /\ SubSeq(p, 1, Len(base)) = base

\* Ord for str: byte-wise lexicographic order
RECURSIVE StrLess(_, _)
StrLess(a, b) ==
    IF b = <<>> THEN FALSE
    ELSE IF a = <<>> THEN TRUE
    ELSE IF Head(a) # Head(b) THEN Head(a) < Head(b)
    ELSE StrLess(Tail(a), Tail(b))

\* ---------------------------------------------------------------- Contents
\* Contents wraps the bytes a driver read
ContentsFromVec(data) == [data |-> data]
VecFromContents(contents) == contents.data

\* a continuation byte 10xxxxxx
IsCont(x) == x \in 128..191

\* the first scalar value of the bytes b as String::from_utf8 accepts it: how many
\* bytes it takes (0 when the bytes do not start with a well-formed sequence) and
\* the scalar value
DecodeFirst(b) ==
    LET n == Len(b)
        b1 == b[1]
    IN IF b1 < 128 THEN [n |-> 1, cp |-> b1]
       ELSE IF b1 \in 194..223 /\ n >= 2 /\ IsCont(b[2])
       THEN [n |-> 2, cp |-> (b1 - 192) * 64 + (b[2] - 128)]
       ELSE IF /\ b1 \in 224..239 /\ n >= 3 /\ IsCont(b[3])
               /\ b[2] \in (IF b1 = 224 THEN 160..191
                             ELSE IF b1 = 237 THEN 128..159 ELSE 128..191)
       THEN [n |-> 3, cp |-> (b1 - 224) * 4096 + (b[2] - 128) * 64 + (b[3] - 128)]
       ELSE IF /\ b1 \in 240..244 /\ n >= 4 /\ IsCont(b[3]) /\ IsCont(b[4])
               /\ b[2] \in (IF b1 = 240 THEN 144..191
                             ELSE IF b1 = 244 THEN 128..143 ELSE 128..191)
       THEN [n |-> 4, cp |-> (b1 - 240) * 262144 + (b[2] - 128) * 4096
                              + (b[3] - 128) * 64 + (b[4] - 128)]
       ELSE [n |-> 0, cp |-> 0]

\* every byte becomes U+FFFD where it is not part of a well-formed sequence
RECURSIVE FromUtf8Lossy(_)
FromUtf8Lossy(b) ==
    IF b = <<>> THEN Some(<<>>)
    ELSE LET d == DecodeFirst(b)
         IN IF d.n = 0 THEN Some(<<65533>> \o Unwrap(FromUtf8Lossy(Tail(b))))
            ELSE Some(<<d.cp>> \o Unwrap(FromUtf8Lossy(SubSeq(b, d.n + 1, Len(b)))))

\* every byte is taken as one character
FromUtf8Latin1(b) == Some(b)

\* String::from_utf8: the text as the sequence of its scalar values, None when the
\* bytes are not UTF-8
RECURSIVE FromUtf8(_)
FromUtf8(b) ==
    IF b = <<>> THEN Some(<<>>)
    ELSE LET d == DecodeFirst(b)
         IN IF d.n = 0 THEN None
            ELSE LET rest == FromUtf8(SubSeq(b, d.n + 1, Len(b)))
                 IN IF rest = None THEN None ELSE Some(<<d.cp>> \o Unwrap(rest))

\* TryFrom<Contents> for String and for Vec<u8>, as Store::read maps the outcome
TryInto(contents, T) ==
    IF T = "String"
    THEN LET text == FromUtf8(contents.data)
         IN IF text = None THEN Err("DecodeError") ELSE [ok |-> TRUE, val |-> Unwrap(text)]
    ELSE [ok |-> TRUE, val |-> VecFromContents(contents)]

\* ---------------------------------------------------------------- in-memory driver
\* InMemoryDriver::default
InMemNew == [kind |-> "inmem", files |-> EmptyMap, directory |-> EmptyMap]

InMemFileExists(st, path) == path \in DOMAIN st.files

InMemRead(st, path) ==
    IF path \in DOMAIN st.files
    THEN [ok |-> TRUE, val |-> VecFromContents(ContentsFromVec(st.files[path]))]
    ELSE Err("ResourceNotFound")

\* a write that reports Ok and stores nothing
InMemWriteDropped(st, path, content) == [res |-> Ok, st |-> st]

InMemWrite(st, path, content) ==
    LET files == Put(st.files, path, content)
        parent == Unwrap(Parent(path))
        old == IF parent \in DOMAIN st.directory THEN st.directory[parent] ELSE <<>>
        directory == IF Parent(path) = None THEN st.directory
                     ELSE Put(st.directory, parent, Append(old, path))
    IN [res |-> Ok, st |-> [st EXCEPT !.files = files, !.directory = directory]]

InMemDelete(st, path) ==
    IF path \notin DOMAIN st.files
    THEN [res |-> Err("ResourceNotFound"), st |-> st]
    ELSE LET files == Retain(st.files, (DOMAIN st.files) \ {path})
             parent == Unwrap(Parent(path))
             old == IF parent \in DOMAIN st.directory THEN st.directory[parent] ELSE <<>>
             NotPath(x) == x # path
             directory == Put(st.directory, parent, SelectSeq(old, NotPath))
         IN [res |-> Ok, st |-> [st EXCEPT !.files = files, !.directory = directory]]

\* only the directory index is pruned, the files stay
InMemDeleteDirectoryKeepsFiles(st, path) ==
    IF path \notin DOMAIN st.directory
    THEN [res |-> Err("ResourceNotFound"), st |-> st]
    ELSE LET directory == Retain(st.directory,
                                 {k \in DOMAIN st.directory : ~StartsWith(k, path)})
         IN [res |-> Ok, st |-> [st EXCEPT !.directory = directory]]

InMemDeleteDirectory(st, path) ==
    IF path \notin DOMAIN st.directory
    THEN [res |-> Err("ResourceNotFound"), st |-> st]
    ELSE LET directory == Retain(st.directory,
                                 {k \in DOMAIN st.directory : ~StartsWith(k, path)})
             files == Retain(st.files, {k \in DOMAIN st.files : ~StartsWith(k, path)})
         IN [res |-> Ok, st |-> [st EXCEPT !.files = files, !.directory = directory]]

\* the File's last_modified; the SystemTime itself is not part of the state
InMemLastModified(st, path) ==
    IF path \in DOMAIN st.files THEN [ok |-> TRUE, val |-> "SystemTime"]
    ELSE Err("ResourceNotFound")

\* Clone for InMemoryDriver: new Mutexes around copies of both maps
InMemClone(st) == [kind |-> "inmem", files |-> st.files, directory |-> st.directory]

\* ---------------------------------------------------------------- S3 driver
\* The bucket is a map from object key to body.  net is what the transport does
\* with the request: "ok" (the service answers) or "dispatch" (DispatchFailure).
NetOutcomes == {"ok", "dispatch"}

S3New == [kind |-> "s3", objects |-> EmptyMap]

\* Path::to_str on a relative path: the components joined by "/"
RECURSIVE PathToStr(_)
PathToStr(p) ==
    IF p = <<>> THEN <<>>
    ELSE IF Len(p) = 1 THEN <<p[1]>>
    ELSE <<p[1], "/">> \o PathToStr(Tail(p))

StrHasPrefix(s, prefix) ==
    /\ Len(prefix) <= Len(s)
    /\ SubSeq(s, 1, Len(prefix)) = prefix

\* From<AwsApiError<E>> for DriverError, E the error type of one S3 operation and
\* kind the SdkError: [variant |-> ..], with status for a ResponseError and err
\* for a ServiceError.  Every impl has the same arms but for the service errors
\* it picks out.
SdkErrorInto(E, kind) ==
    IF kind.variant \in {"ConstructionFailure", "TimeoutError", "DispatchFailure"}
    THEN "Network"
    ELSE IF kind.variant = "ResponseError"
    THEN IF kind.status = 404 THEN "ResourceNotFound" ELSE "Network"
    ELSE IF kind.variant = "ServiceError"
    THEN IF \/ E = "GetObjectError" /\ kind.err = "NoSuchKey"
            \/ E = "HeadObjectError" /\ kind.err = "NotFound"
            \/ E = "ListObjectsV2Error" /\ kind.err = "NoSuchBucket"
         THEN "ResourceNotFound"
         ELSE "Any"
    ELSE "Any"

\* the conversion on the failures the transport produces
S3ErrorFrom(net) ==
    SdkErrorInto("GetObjectError",
                 [variant |-> IF net = "dispatch" THEN "DispatchFailure" ELSE "Other"])

\* the NotFound of head_object is passed on as an error
S3FileExistsNotFoundIsError(st, path, net) ==
    IF net # "ok" THEN Err(S3ErrorFrom(net))
    ELSE IF PathToStr(path) \in DOMAIN st.objects THEN [ok |-> TRUE, val |-> TRUE]
    ELSE Err("ResourceNotFound")

S3FileExists(st, path, net) ==
    IF net # "ok" THEN Err(S3ErrorFrom(net))
    ELSE [ok |-> TRUE, val |-> PathToStr(path) \in DOMAIN st.objects]

\* get_object: NoSuchKey becomes ResourceNotFound
S3Read(st, path, net) ==
    IF net # "ok" THEN Err(S3ErrorFrom(net))
    ELSE IF PathToStr(path) \in DOMAIN st.objects
    THEN [ok |-> TRUE, val |-> VecFromContents(ContentsFromVec(st.objects[PathToStr(path)]))]
    ELSE Err("ResourceNotFound")

S3Write(st, path, content, net) ==
    IF net # "ok" THEN [res |-> Err(S3ErrorFrom(net)), st |-> st]
    ELSE [res |-> Ok,
          st |-> [st EXCEPT !.objects = Put(st.objects, PathToStr(path), content)]]

S3Delete(st, path, net) ==
    LET exists == S3FileExists(st, path, net)
    IN IF ~exists.ok THEN [res |-> exists, st |-> st]
       ELSE IF ~exists.val THEN [res |-> Err("ResourceNotFound"), st |-> st]
       ELSE [res |-> Ok,
             st |-> [st EXCEPT !.objects =
                        Retain(st.objects, (DOMAIN st.objects) \ {PathToStr(path)})]]

\* get_all_files_in_path: the keys with prefix "<path>/"
S3AllFilesInPath(st, path) ==
    {k \in DOMAIN st.objects : StrHasPrefix(k, PathToStr(path) \o <<"/">>)}

S3DeleteDirectory(st, path, net) ==
    IF net # "ok" THEN [res |-> Err(S3ErrorFrom(net)), st |-> st]
    ELSE LET paths_to_delete == S3AllFilesInPath(st, path)
         IN IF paths_to_delete = {} THEN [res |-> Err("ResourceNotFound"), st |-> st]
            ELSE [res |-> Ok,
                  st |-> [st EXCEPT !.objects =
                             Retain(st.objects, (DOMAIN st.objects) \ paths_to_delete)]]

\* head_object: NotFound becomes ResourceNotFound
S3LastModified(st, path, net) ==
    IF net # "ok" THEN Err(S3ErrorFrom(net))
    ELSE IF PathToStr(path) \in DOMAIN st.objects
    THEN [ok |-> TRUE, val |-> "SystemTime"]
    ELSE Err("ResourceNotFound")

\* ---------------------------------------------------------------- disk driver
\* The file system is a map from absolute path to file body and a set of
\* directories.  An absolute path starts with the component "/"; a relative path
\* is resolved against the working directory of the process.
Cwd == <<"/">>
IsAbsolute(p) == p # <<>> /\ p[1] = "/"

\* Path::join: an absolute argument replaces the base
PathJoin(base, p) == IF IsAbsolute(p) THEN p ELSE base \o p

Resolve(p) == PathJoin(Cwd, p)

FsNew == [files |-> EmptyMap, dirs |-> {Cwd}]

\* Path::exists and Path::is_file (the empty path names nothing)
FsExists(fs, p) == p # <<>> /\ Resolve(p) \in (DOMAIN fs.files) \cup fs.dirs
FsIsFile(fs, p) == p # <<>> /\ Resolve(p) \in DOMAIN fs.files

Ancestors(q) == {SubSeq(q, 1, k) : k \in 1..Len(q)}

\* fs::create_dir_all
FsCreateDirAll(fs, p) ==
    IF p = <<>> THEN [res |-> Ok, fs |-> fs]
    ELSE IF Ancestors(Resolve(p)) \cap DOMAIN fs.files # {}
    THEN [res |-> Err("NotADirectory"), fs |-> fs]
    ELSE [res |-> Ok, fs |-> [fs EXCEPT !.dirs = @ \cup Ancestors(Resolve(p))]]

\* fs::write: creates or truncates the file
FsWrite(fs, p, content) ==
    LET r == Resolve(p)
    IN IF p = <<>> THEN [res |-> Err("NotFound"), fs |-> fs]
       ELSE IF r \in fs.dirs THEN [res |-> Err("IsADirectory"), fs |-> fs]
       ELSE IF SubSeq(r, 1, Len(r) - 1) \in DOMAIN fs.files
       THEN [res |-> Err("NotADirectory"), fs |-> fs]
       ELSE IF SubSeq(r, 1, Len(r) - 1) \notin fs.dirs
       THEN [res |-> Err("NotFound"), fs |-> fs]
       ELSE [res |-> Ok, fs |-> [fs EXCEPT !.files = Put(@, r, content)]]

\* fs::read
FsRead(fs, p) ==
    LET r == Resolve(p)
    IN IF p # <<>> /\ r \in DOMAIN fs.files THEN [ok |-> TRUE, val |-> fs.files[r]]
       ELSE IF p # <<>> /\ r \in fs.dirs THEN Err("IsADirectory")
       ELSE Err("NotFound")

\* fs::remove_file
FsRemoveFile(fs, p) ==
    LET r == Resolve(p)
    IN IF p # <<>> /\ r \in DOMAIN fs.files
       THEN [res |-> Ok, fs |-> [fs EXCEPT !.files = Retain(@, (DOMAIN @) \ {r})]]
       ELSE IF p # <<>> /\ r \in fs.dirs THEN [res |-> Err("IsADirectory"), fs |-> fs]
       ELSE [res |-> Err("NotFound"), fs |-> fs]

\* fs::remove_dir_all
FsRemoveDirAll(fs, p) ==
    LET r == Resolve(p)
    IN IF p # <<>> /\ r \in fs.dirs
       THEN [res |-> Ok,
             fs |-> [files |-> Retain(fs.files, {k \in DOMAIN fs.files : ~StartsWith(k, r)}),
                     dirs |-> {k \in fs.dirs : ~StartsWith(k, r)}]]
       ELSE IF p # <<>> /\ r \in DOMAIN fs.files
       THEN [res |-> Err("NotADirectory"), fs |-> fs]
       ELSE [res |-> Err("NotFound"), fs |-> fs]

\* From<ErrorKind> for DriverError: NotFound becomes ResourceNotFound; for every
\* other kind the conversion calls itself and does not return
DiskErrorFrom(kind) == IF kind = "NotFound" THEN "ResourceNotFound" ELSE "NeverReturns"

\* DiskDriver::new on an empty file system
DiskNew(location) ==
    [kind |-> "disk", location |-> location,
     fs |-> IF ~FsExists(FsNew, location) THEN FsCreateDirAll(FsNew, location).fs
            ELSE FsNew]

DiskRead(st, path) ==
    LET content == FsRead(st.fs, PathJoin(st.location, path))
    IN IF content.ok
       THEN [ok |-> TRUE, val |-> VecFromContents(ContentsFromVec(content.val))]
       ELSE Err(DiskErrorFrom(content.err))

\* the path is tested as given, from the working directory
DiskFileExists(st, path) ==
    IF ~FsIsFile(st.fs, path) THEN FALSE ELSE FsExists(st.fs, path)

DiskWrite(st, path, content) ==
    LET full == PathJoin(st.location, path)
        parent == Parent(full)
        made == IF parent # None /\ ~FsExists(st.fs, Unwrap(parent))
                THEN FsCreateDirAll(st.fs, Unwrap(parent))
                ELSE [res |-> Ok, fs |-> st.fs]
        written == FsWrite(made.fs, full, content)
    IN IF ~made.res.ok
       THEN [res |-> Err(DiskErrorFrom(made.res.err)), st |-> [st EXCEPT !.fs = made.fs]]
       ELSE IF ~written.res.ok
       THEN [res |-> Err(DiskErrorFrom(written.res.err)),
             st |-> [st EXCEPT !.fs = written.fs]]
       ELSE [res |-> Ok, st |-> [st EXCEPT !.fs = written.fs]]

DiskDelete(st, path) ==
    LET full == PathJoin(st.location, path)
        removed == FsRemoveFile(st.fs, full)
    IN IF ~FsExists(st.fs, full) THEN [res |-> Err("ResourceNotFound"), st |-> st]
       ELSE IF ~removed.res.ok
       THEN [res |-> Err(DiskErrorFrom(removed.res.err)), st |-> st]
       ELSE [res |-> Ok, st |-> [st EXCEPT !.fs = removed.fs]]

DiskDeleteDirectory(st, path) ==
    LET full == PathJoin(st.location, path)
        removed == FsRemoveDirAll(st.fs, full)
    IN IF ~FsExists(st.fs, full) THEN [res |-> Err("ResourceNotFound"), st |-> st]
       ELSE IF ~removed.res.ok
       THEN [res |-> Err(DiskErrorFrom(removed.res.err)), st |-> st]
       ELSE [res |-> Ok, st |-> [st EXCEPT !.fs = removed.fs]]

\* fs::metadata on a path that exists
DiskLastModified(st, path) ==
    LET full == PathJoin(st.location, path)
    IN IF ~FsExists(st.fs, full) THEN Err("ResourceNotFound")
       ELSE [ok |-> TRUE, val |-> "SystemTime"]

\* ---------------------------------------------------------------- Azure driver
\* The container is a map from blob name to body; the service answers every
\* request, a missing blob with the error code BlobNotFound.
AzureNew == [kind |-> "azure", blobs |-> EmptyMap]

\* PathBuf::from on a name: its components
PathFromStr(s) == LET IsComponent(x) == x # "/" IN SelectSeq(s, IsComponent)

\* From<&azure_storage::ErrorKind> for DriverError, on the error code of an
\* HttpResponse
AzureErrorFrom(error_code) ==
    IF error_code \in {"ContainerNotFound", "BlobNotFound"} THEN "ResourceNotFound"
    ELSE IF error_code = "AuthenticationFailed" THEN "AuthenticationFailed"
    ELSE "Any"

AzureRead(st, path) ==
    IF PathToStr(path) \in DOMAIN st.blobs
    THEN [ok |-> TRUE, val |-> VecFromContents(ContentsFromVec(st.blobs[PathToStr(path)]))]
    ELSE Err(AzureErrorFrom("BlobNotFound"))

AzureFileExists(st, path) == [ok |-> TRUE, val |-> PathToStr(path) \in DOMAIN st.blobs]

AzureWrite(st, path, content) ==
    [res |-> Ok, st |-> [st EXCEPT !.blobs = Put(st.blobs, PathToStr(path), content)]]

AzureDelete(st, path) ==
    IF PathToStr(path) \notin DOMAIN st.blobs
    THEN [res |-> Err(AzureErrorFrom("BlobNotFound")), st |-> st]
    ELSE [res |-> Ok,
          st |-> [st EXCEPT !.blobs = Retain(st.blobs, (DOMAIN st.blobs) \ {PathToStr(path)})]]

\* get_all_files_in_path: every blob of the container whose path starts with the
\* components of dir_path
AzureAllFilesInPath(st, dir_path) ==
    {k \in DOMAIN st.blobs : StartsWith(PathFromStr(k), dir_path)}

AzureDeleteDirectory(st, path) ==
    LET paths_to_delete == AzureAllFilesInPath(st, path)
    IN IF paths_to_delete = {} THEN [res |-> Err("ResourceNotFound"), st |-> st]
       ELSE [res |-> Ok,
             st |-> [st EXCEPT !.blobs = Retain(st.blobs, (DOMAIN st.blobs) \ paths_to_delete)]]

AzureLastModified(st, path) ==
    IF PathToStr(path) \in DOMAIN st.blobs THEN [ok |-> TRUE, val |-> "SystemTime"]
    ELSE Err(AzureErrorFrom("BlobNotFound"))

\* ---------------------------------------------------------------- GCP driver
\* The bucket is a map from object name to body; the service answers every
\* request, a missing object with the response code 404.
GcpNew == [kind |-> "gcp", bucket |-> "bucket", objects |-> EmptyMap]

\* every response code becomes Any
GcpErrorFromAlwaysAny(code) == "Any"

\* From<http::Error> for DriverError, on the code of an Error::Response
GcpErrorFrom(code) == IF code = 404 THEN "ResourceNotFound" ELSE "Any"

\* read wraps whatever download_object fails with in DriverError::Any
GcpRead(st, path) ==
    IF PathToStr(path) \in DOMAIN st.objects
    THEN [ok |-> TRUE, val |-> VecFromContents(ContentsFromVec(st.objects[PathToStr(path)]))]
    ELSE Err("Any")

\* object_exists: the response code 404 is Ok(false)
GcpFileExists(st, path) == [ok |-> TRUE, val |-> PathToStr(path) \in DOMAIN st.objects]

GcpWrite(st, path, content) ==
    [res |-> Ok, st |-> [st EXCEPT !.objects = Put(st.objects, PathToStr(path), content)]]

GcpDelete(st, path) ==
    IF PathToStr(path) \notin DOMAIN st.objects
    THEN [res |-> Err(GcpErrorFrom(404)), st |-> st]
    ELSE [res |-> Ok,
          st |-> [st EXCEPT !.objects =
                     Retain(st.objects, (DOMAIN st.objects) \ {PathToStr(path)})]]

\* list_objects: the names with prefix "<path>/", each returned as the path
\* "<bucket>/<name>"
GcpListObjects(st, path) ==
    {<<st.bucket>> \o PathFromStr(k) :
        k \in {n \in DOMAIN st.objects : StrHasPrefix(n, PathToStr(path) \o <<"/">>)}}

\* get_all_files_in_path keeps the listed paths that start with dir_path
GcpAllFilesInPath(st, dir_path) ==
    {p \in GcpListObjects(st, dir_path) : StartsWith(p, dir_path)}

\* every kept path is handed to delete as it is, bucket component included
GcpDeleteDirectory(st, path) ==
    LET paths_to_delete == GcpAllFilesInPath(st, path)
        names == {PathToStr(p) : p \in paths_to_delete}
    IN IF paths_to_delete = {} THEN [res |-> Err("ResourceNotFound"), st |-> st]
       ELSE IF names \subseteq DOMAIN st.objects
       THEN [res |-> Ok,
             st |-> [st EXCEPT !.objects = Retain(st.objects, (DOMAIN st.objects) \ names)]]
       ELSE [res |-> Err(GcpErrorFrom(404)), st |-> st]

GcpLastModified(st, path) ==
    IF PathToStr(path) \in DOMAIN st.objects THEN [ok |-> TRUE, val |-> "SystemTime"]
    ELSE Err(GcpErrorFrom(404))

\* ---------------------------------------------------------------- Store
\* Store forwards every operation to its boxed Driver
StoreNet(st) == IF st.kind = "s3" THEN NetOutcomes ELSE {"ok"}

StoreFileExists(st, path, net) ==
    IF st.kind = "s3" THEN S3FileExists(st, path, net)
    ELSE IF st.kind = "azure" THEN AzureFileExists(st, path)
    ELSE IF st.kind = "gcp" THEN GcpFileExists(st, path)
    ELSE IF st.kind = "disk" THEN [ok |-> TRUE, val |-> DiskFileExists(st, path)]
    ELSE [ok |-> TRUE, val |-> InMemFileExists(st, path)]

StoreWrite(st, path, content, net) ==
    IF st.kind = "s3" THEN S3Write(st, path, content, net)
    ELSE IF st.kind = "azure" THEN AzureWrite(st, path, content)
    ELSE IF st.kind = "gcp" THEN GcpWrite(st, path, content)
    ELSE IF st.kind = "disk" THEN DiskWrite(st, path, content)
    ELSE InMemWrite(st, path, content)

\* Store::read::<T>, T one of "Vec<u8>" and "String"
StoreRead(st, path, T, net) ==
    LET read == IF st.kind = "s3" THEN S3Read(st, path, net)
                ELSE IF st.kind = "azure" THEN AzureRead(st, path)
                ELSE IF st.kind = "gcp" THEN GcpRead(st, path)
                ELSE IF st.kind = "disk" THEN DiskRead(st, path)
                ELSE InMemRead(st, path)
    IN IF ~read.ok THEN read ELSE TryInto(ContentsFromVec(read.val), T)

StoreDelete(st, path, net) ==
    IF st.kind = "s3" THEN S3Delete(st, path, net)
    ELSE IF st.kind = "azure" THEN AzureDelete(st, path)
    ELSE IF st.kind = "gcp" THEN GcpDelete(st, path)
    ELSE IF st.kind = "disk" THEN DiskDelete(st, path)
    ELSE InMemDelete(st, path)

StoreDeleteDirectory(st, path, net) ==
    IF st.kind = "s3" THEN S3DeleteDirectory(st, path, net)
    ELSE IF st.kind = "azure" THEN AzureDeleteDirectory(st, path)
    ELSE IF st.kind = "gcp" THEN GcpDeleteDirectory(st, path)
    ELSE IF st.kind = "disk" THEN DiskDeleteDirectory(st, path)
    ELSE InMemDeleteDirectory(st, path)

StoreLastModified(st, path, net) ==
    IF st.kind = "s3" THEN S3LastModified(st, path, net)
    ELSE IF st.kind = "azure" THEN AzureLastModified(st, path)
    ELSE IF st.kind = "gcp" THEN GcpLastModified(st, path)
    ELSE IF st.kind = "disk" THEN DiskLastModified(st, path)
    ELSE InMemLastModified(st, path)

\* Clone for Store: clone_box of the driver
StoreClone(st) == IF st.kind = "inmem" THEN InMemClone(st) ELSE st

\* the body a Store holds at path, None when it holds nothing there
Holds(st, path) ==
    IF st.kind \in {"s3", "gcp"}
    THEN IF PathToStr(path) \in DOMAIN st.objects
         THEN Some(st.objects[PathToStr(path)]) ELSE None
    ELSE IF st.kind = "azure"
    THEN IF PathToStr(path) \in DOMAIN st.blobs
         THEN Some(st.blobs[PathToStr(path)]) ELSE None
    ELSE IF st.kind = "disk"
    THEN IF Resolve(PathJoin(st.location, path)) \in DOMAIN st.fs.files
         THEN Some(st.fs.files[Resolve(PathJoin(st.location, path))]) ELSE None
    ELSE IF path \in DOMAIN st.files THEN Some(st.files[path]) ELSE None

\* ---------------------------------------------------------------- MultiStore
VARIABLES
    primary,          \* MultiStore.primary: the primary Store
    stores,           \* MultiStore.stores: name -> Store
    mirrors,          \* MultiStore.mirrors: group name -> list of store names
    mirrors_policy,   \* MultiStore.mirrors_policy
    mirror,           \* the live Mirror borrowed from the MultiStore, or None
    pc,               \* "idle" | "ready" | "loop" | "call" | "done" | "hung", or
                      \* inside an in-memory driver call the lock taken next
    req,              \* the request a fan-out replays
    idx,              \* position of the fan-out's iterator in mirror.stores
    error_stores,     \* the fan-out's accumulator
    result,           \* what the fan-out returned
    invoked,          \* history: target names in the order their calls began
    inflight,         \* history: target names whose call has not returned
    outcomes,         \* history: what each target's call returned
    pre,              \* history: primary and stores when the fan-out began
    last,             \* history: the last MultiStore call and what it returned
    defined,          \* history: groups some add_mirrors call accepted
    parked            \* the task that is not running: its Mirror, its position and its locals

vars == <<primary, stores, mirrors, mirrors_policy, mirror, pc, req, idx,
          error_stores, result, invoked, inflight, outcomes, pre, last, defined, parked>>

multi == <<primary, stores, mirrors, mirrors_policy>>
fanout == <<req, idx, error_stores, result, invoked, inflight, outcomes, pre>>

Policies == {"ContinueOnFailure", "StopOnFailure"}

\* a Store handed over by StoreConfig::build
FreshStores == {InMemNew, S3New}

\* a Vec of pairs in insertion order in place of the BTreeMap
BTreeInsertAppend(m, k, v) ==
    LET Other(e) == e.key # k
    IN SelectSeq(m, Other) \o <<[key |-> k, val |-> v]>>

\* BTreeMap<K, V> with K a string: the entries in ascending key order
BTreeInsert(m, k, v) ==
    LET Before(e) == StrLess(e.key, k)
        After(e) == StrLess(k, e.key)
    IN SelectSeq(m, Before) \o <<[key |-> k, val |-> v]>> \o SelectSeq(m, After)

BTreeKeys(m) == [i \in 1..Len(m) |-> m[i].key]

\* the orders in which iterating a HashMap may yield the keys S
Orders(S) ==
    {o \in [1..Cardinality(S) -> S] : \A i, j \in 1..Cardinality(S) : i # j => o[i] # o[j]}

\* &Store: a reference to the primary field or to an entry of the registry
PrimaryRef == [field |-> "primary"]
StoreRef(name) == [field |-> "stores", name |-> name]
Deref(ref) == IF ref.field = "primary" THEN primary ELSE stores[ref.name]

\* the MultiStore starts under StopOnFailure
NewStopOnFailure(store) ==
    [primary |-> store, mirrors |-> EmptyMap, mirrors_policy |-> "StopOnFailure",
     stores |-> EmptyMap]

\* MultiStore::new
New(store) ==
    [primary |-> store, mirrors |-> EmptyMap, mirrors_policy |-> "ContinueOnFailure",
     stores |-> EmptyMap]

\* the MultiStore that MultiStore::new(store) returned for a store of F, and no
\* Mirror yet
InitWith(F) ==
    /\ \E store \in F :
         /\ primary = New(store).primary
         /\ stores = New(store).stores
         /\ mirrors = New(store).mirrors
         /\ mirrors_policy = New(store).mirrors_policy
         /\ last = [op |-> "new", store |-> store]
    /\ mirror = None
    /\ pc = "idle"
    /\ req = None
    /\ idx = 0
    /\ error_stores = <<>>
    /\ result = None
    /\ invoked = <<>>
    /\ inflight = {}
    /\ outcomes = <<>>
    /\ pre = None
    /\ defined = {}
    /\ parked = None

Init == InitWith(FreshStores)

\* entry(name).or_insert(store): a registered name keeps its Store
InsertAllKeepsOld(reg, given) ==
    [n \in (DOMAIN reg) \cup (DOMAIN given) |->
        IF n \in DOMAIN reg THEN reg[n] ELSE given[n]]

\* the registry after add_stores inserted every entry of given (the keys of a
\* HashMap are distinct, so the order of the insertions does not matter)
InsertAll(reg, given) ==
    [n \in (DOMAIN reg) \cup (DOMAIN given) |->
        IF n \in DOMAIN given THEN given[n] ELSE reg[n]]

\* a name that a group lists keeps the Store it had when the group was defined
AddStoresKeepsGrouped(given) ==
    /\ pc = "idle"
    /\ stores' = [n \in (DOMAIN stores) \cup (DOMAIN given) |->
                     IF n \in DOMAIN given
                        /\ ~(n \in DOMAIN stores
                             /\ \E g \in DOMAIN mirrors :
                                    \E i \in 1..Len(mirrors[g]) : mirrors[g][i] = n)
                     THEN given[n] ELSE stores[n]]
    /\ last' = [op |-> "add_stores", given |-> given, old |-> stores]
    /\ UNCHANGED <<primary, mirrors, mirrors_policy, mirror, pc, fanout, defined, parked>>

\* MultiStore::add_stores
AddStores(given) ==
    /\ pc = "idle"
    /\ stores' = InsertAll(stores, given)
    /\ last' = [op |-> "add_stores", given |-> given, old |-> stores]
    /\ UNCHANGED <<primary, mirrors, mirrors_policy, mirror, pc, fanout, defined, parked>>

\* HashMap::get
HashMapGet(m, k) == IF k \in DOMAIN m THEN Some(m[k]) ELSE None

\* MultiStore::get_store
GetStore(name) ==
    /\ pc = "idle"
    /\ last' = [op |-> "get_store", name |-> name, ret |-> HashMapGet(stores, name)]
    /\ UNCHANGED <<multi, mirror, pc, fanout, defined, parked>>

\* the policy can only be set once away from the default
SetMirrorsPolicyOnce(policy) ==
    /\ pc = "idle"
    /\ mirrors_policy' = IF mirrors_policy = "ContinueOnFailure" THEN policy
                         ELSE mirrors_policy
    /\ last' = [op |-> "set_mirrors_policy", policy |-> policy]
    /\ UNCHANGED <<primary, stores, mirrors, mirror, pc, fanout, defined, parked>>

\* MultiStore::set_mirrors_policy
SetMirrorsPolicy(policy) ==
    /\ pc = "idle"
    /\ mirrors_policy' = policy
    /\ last' = [op |-> "set_mirrors_policy", policy |-> policy]
    /\ UNCHANGED <<primary, stores, mirrors, mirror, pc, fanout, defined, parked>>

\* Vec<String>::join(","), on the bytes
RECURSIVE Join(_)
Join(names) ==
    IF names = <<>> THEN <<>>
    ELSE IF Len(names) = 1 THEN names[1]
    ELSE names[1] \o <<44>> \o Join(Tail(names))

\* only the first unknown name is reported
UnknownStoresFirst(stores_names) ==
    LET Unknown(n) == n \notin DOMAIN stores
        all == SelectSeq(stores_names, Unknown)
    IN IF all = <<>> THEN <<>> ELSE <<all[1]>>

\* no name is looked up in the registry
UnknownStoresSkipped(stores_names) == <<>>

\* the names add_mirrors reports: those the registry has no key for
UnknownStores(stores_names) ==
    LET Unknown(n) == n \notin DOMAIN stores
    IN SelectSeq(stores_names, Unknown)

\* format!("the stores: {} not defined", ..)
NotDefinedMessage(unknown_stores) ==
    [prefix |-> "the stores: ", joined |-> Join(unknown_stores), suffix |-> " not defined"]

\* entry(name).or_insert(stores_names): an earlier definition is kept
MirrorsInsertKeepsOld(m, name, stores_names) ==
    IF name \in DOMAIN m THEN m ELSE Put(m, name, stores_names)

\* self.mirrors.insert(name, stores_names): the group's list is replaced
MirrorsInsert(m, name, stores_names) == Put(m, name, stores_names)


\* the list is stored before the names are validated
AddMirrorsInsertsFirst(name, stores_names) ==
    /\ pc = "idle"
    /\ LET unknown_stores == UnknownStores(stores_names)
       IN IF unknown_stores # <<>>
          THEN /\ mirrors' = MirrorsInsert(mirrors, name, stores_names)
               /\ last' = [op |-> "add_mirrors", name |-> name, names |-> stores_names,
                           ret |-> Err(NotDefinedMessage(unknown_stores))]
               /\ UNCHANGED defined
          ELSE /\ mirrors' = MirrorsInsert(mirrors, name, stores_names)
               /\ defined' = defined \cup {name}
               /\ last' = [op |-> "add_mirrors", name |-> name, names |-> stores_names,
                           ret |-> Ok,
                           old |-> IF name \in DOMAIN mirrors THEN Some(mirrors[name])
                                   ELSE None]
    /\ UNCHANGED <<primary, stores, mirrors_policy, mirror, pc, fanout, parked>>

\* MultiStore::add_mirrors
AddMirrors(name, stores_names) ==
    /\ pc = "idle"
    /\ LET unknown_stores == UnknownStores(stores_names)
       IN IF unknown_stores # <<>>
          THEN /\ last' = [op |-> "add_mirrors", name |-> name, names |-> stores_names,
                           ret |-> Err(NotDefinedMessage(unknown_stores))]
               /\ UNCHANGED <<mirrors, defined>>
          ELSE /\ mirrors' = MirrorsInsert(mirrors, name, stores_names)
               /\ defined' = defined \cup {name}
               /\ last' = [op |-> "add_mirrors", name |-> name, names |-> stores_names,
                           ret |-> Ok,
                           old |-> IF name \in DOMAIN mirrors THEN Some(mirrors[name])
                                   ELSE None]
    /\ UNCHANGED <<primary, stores, mirrors_policy, mirror, pc, fanout, parked>>

\* the map mirror_stores_from_primary builds, the registry iterated in the order o
RECURSIVE FromPrimaryTargets(_, _)
FromPrimaryTargets(m, o) ==
    IF o = <<>> THEN m
    ELSE FromPrimaryTargets(BTreeInsert(m, Head(o), StoreRef(Head(o))), Tail(o))

\* MultiStore::mirror_stores_from_primary
MirrorStoresFromPrimary ==
    /\ pc = "idle"
    /\ \E o \in Orders(DOMAIN stores) :
         mirror' = Some([policy |-> mirrors_policy,
                         stores |-> FromPrimaryTargets(
                                        BTreeInsert(<<>>, PRIMARY, PrimaryRef), o)])
    /\ pc' = "ready"
    /\ last' = [op |-> "mirror_stores_from_primary"]
    /\ UNCHANGED <<multi, fanout, defined, parked>>

Contains(list, x) == \E i \in 1..Len(list) : list[i] = x

\* the membership test is left out: every registered store becomes a target
RECURSIVE GroupTargetsAll(_, _, _)
GroupTargetsAll(m, stores_name, o) ==
    IF o = <<>> THEN m
    ELSE GroupTargetsAll(BTreeInsert(m, Head(o), StoreRef(Head(o))), stores_name, Tail(o))

\* the targets are a list with one entry for every occurrence of a name in the
\* membership list
RECURSIVE GroupTargetsPerOccurrence(_, _, _)
GroupTargetsPerOccurrence(m, stores_name, o) ==
    IF o = <<>> THEN m
    ELSE LET IsHead(n) == n = Head(o)
             occurrences == SelectSeq(stores_name, IsHead)
         IN GroupTargetsPerOccurrence(
                m \o [i \in 1..Len(occurrences) |->
                         [key |-> Head(o), val |-> StoreRef(Head(o))]],
                stores_name, Tail(o))

\* the map mirror builds for the membership list, the registry iterated in the order o
RECURSIVE GroupTargets(_, _, _)
GroupTargets(m, stores_name, o) ==
    IF o = <<>> THEN m
    ELSE GroupTargets(
             IF Contains(stores_name, Head(o))
             THEN BTreeInsert(m, Head(o), StoreRef(Head(o))) ELSE m,
             stores_name, Tail(o))

\* mirror starts from the primary entry, as mirror_stores_from_primary does
MirrorByNameWithPrimary(name) ==
    /\ pc = "idle"
    /\ IF name \notin DOMAIN mirrors
       THEN /\ last' = [op |-> "mirror", name |-> name, ret |-> None]
            /\ UNCHANGED <<mirror, pc>>
       ELSE /\ \E o \in Orders(DOMAIN stores) :
                 mirror' = Some([policy |-> mirrors_policy,
                                 stores |-> GroupTargets(
                                     BTreeInsert(<<>>, PRIMARY, PrimaryRef),
                                     mirrors[name], o)])
            /\ pc' = "ready"
            /\ last' = [op |-> "mirror", name |-> name, ret |-> mirror']
    /\ UNCHANGED <<multi, fanout, defined, parked>>

\* MultiStore::mirror
MirrorByName(name) ==
    /\ pc = "idle"
    /\ IF name \notin DOMAIN mirrors
       THEN /\ last' = [op |-> "mirror", name |-> name, ret |-> None]
            /\ UNCHANGED <<mirror, pc>>
       ELSE /\ \E o \in Orders(DOMAIN stores) :
                 mirror' = Some([policy |-> mirrors_policy,
                                 stores |-> GroupTargets(<<>>, mirrors[name], o)])
            /\ pc' = "ready"
            /\ last' = [op |-> "mirror", name |-> name, ret |-> mirror']
    /\ UNCHANGED <<multi, fanout, defined, parked>>

\* ---------------------------------------------------------------- Mirror
Target == Unwrap(mirror).stores[idx]

\* the Store operation a fan-out replays on one target
StoreCall(st, r, net) ==
    IF r.op = "write" THEN StoreWrite(st, r.path, r.content, net)
    ELSE IF r.op = "delete" THEN StoreDelete(st, r.path, net)
    ELSE StoreDeleteDirectory(st, r.path, net)

\* every failure ends the fan-out, whatever the policy
HandleErrorPolicyStops(policy, store_name, error, acc) ==
    [ret |-> Err([tag |-> "MirrorFailedOnStore", name |-> store_name, error |-> error]),
     error_stores |-> acc]

\* every failure is accumulated, whatever the policy
HandleErrorPolicyContinues(policy, store_name, error, acc) ==
    [ret |-> Ok, error_stores |-> BTreeInsert(acc, store_name, error)]

\* Mirror::handle_error_policy: what it returns and what it leaves in the accumulator
HandleErrorPolicy(policy, store_name, error, acc) ==
    IF policy = "ContinueOnFailure"
    THEN [ret |-> Ok, error_stores |-> BTreeInsert(acc, store_name, error)]
    ELSE [ret |-> Err([tag |-> "MirrorFailedOnStore", name |-> store_name, error |-> error]),
          error_stores |-> acc]

\* how many entries the in-memory directory Vec of path's parent holds
DirLen(st, path) ==
    IF st.kind = "inmem" /\ Parent(path) # None /\ Unwrap(Parent(path)) \in DOMAIN st.directory
    THEN Len(st.directory[Unwrap(Parent(path))]) ELSE 0

\* Mirror::write, Mirror::delete, Mirror::delete_directory: the call is made.
\* A write is taken only while every in-memory target has room in the directory
\* Vec the write pushes to (MaxDirLen).
FanOutStart(r) ==
    /\ pc = "ready"
    /\ r.op = "write" =>
         \A i \in 1..Len(Unwrap(mirror).stores) :
             DirLen(Deref(Unwrap(mirror).stores[i].val), r.path) < MaxDirLen
    /\ req' = Some(r)
    /\ idx' = 1
    /\ error_stores' = <<>>
    /\ result' = None
    /\ invoked' = <<>>
    /\ inflight' = {}
    /\ outcomes' = <<>>
    /\ pre' = Some([primary |-> primary, stores |-> stores])
    /\ pc' = "loop"
    /\ UNCHANGED <<multi, mirror, last, defined, parked>>

\* the calls are started without awaiting the one before
NextTargetReadyEager == pc \in {"loop", "call"}

\* the loop may take its next target
NextTargetReady == pc = "loop"

\* the loop reaches the next target and awaits its Store call
CallBegin ==
    /\ NextTargetReady
    /\ idx + Cardinality(inflight) <= Len(Unwrap(mirror).stores)
    /\ LET name == Unwrap(mirror).stores[idx + Cardinality(inflight)].key
       IN /\ invoked' = Append(invoked, name)
          /\ inflight' = inflight \cup {name}
    /\ pc' = "call"
    /\ UNCHANGED <<multi, mirror, req, idx, error_stores, result, outcomes, pre, last,
                   defined, parked>>

\* a target whose call failed under ContinueOnFailure is called again
CallReturnRetries ==
    /\ pc = "call"
    /\ \E net \in StoreNet(Deref(Target.val)) :
         LET call == StoreCall(Deref(Target.val), Unwrap(req), net)
             handled == HandleErrorPolicy(Unwrap(mirror).policy, Target.key,
                                          call.res.err, error_stores)
         IN /\ IF Target.val.field = "primary"
               THEN primary' = call.st /\ UNCHANGED stores
               ELSE stores' = [stores EXCEPT ![Target.val.name] = call.st]
                    /\ UNCHANGED primary
            /\ outcomes' = Append(outcomes, [name |-> Target.key, res |-> call.res])
            /\ inflight' = inflight \ {Target.key}
            /\ IF call.res.ok
               THEN /\ idx' = idx + 1
                    /\ pc' = "loop"
                    /\ UNCHANGED <<error_stores, result>>
               ELSE IF handled.ret.ok
               THEN /\ error_stores' = handled.error_stores
                    /\ idx' = idx
                    /\ pc' = "loop"
                    /\ UNCHANGED result
               ELSE /\ result' = Some(handled.ret)
                    /\ pc' = "done"
                    /\ UNCHANGED <<error_stores, idx>>
    /\ UNCHANGED <<mirrors, mirrors_policy, mirror, req, invoked, pre, last, defined, parked>>

\* the awaited Store call returns; on Err the policy decides
CallReturn ==
    /\ pc = "call"
    /\ \E net \in StoreNet(Deref(Target.val)) :
         LET call == StoreCall(Deref(Target.val), Unwrap(req), net)
             handled == HandleErrorPolicy(Unwrap(mirror).policy, Target.key,
                                          call.res.err, error_stores)
         IN /\ IF Target.val.field = "primary"
               THEN primary' = call.st /\ UNCHANGED stores
               ELSE stores' = [stores EXCEPT ![Target.val.name] = call.st]
                    /\ UNCHANGED primary
            /\ outcomes' = Append(outcomes, [name |-> Target.key, res |-> call.res])
            /\ inflight' = inflight \ {Target.key}
            /\ IF call.res.ok
               THEN /\ idx' = idx + 1
                    /\ pc' = "loop"
                    /\ UNCHANGED <<error_stores, result>>
               ELSE IF handled.ret.ok
               THEN /\ error_stores' = handled.error_stores
                    /\ idx' = idx + 1
                    /\ pc' = "loop"
                    /\ UNCHANGED result
               ELSE /\ result' = Some(handled.ret)
                    /\ pc' = "done"
                    /\ UNCHANGED <<error_stores, idx>>
    /\ UNCHANGED <<mirrors, mirrors_policy, mirror, req, invoked, pre, last, defined, parked>>

\* the accumulated failures are dropped: the loop always ends in Ok
FanOutEndAlwaysOk ==
    /\ pc = "loop"
    /\ idx > Len(Unwrap(mirror).stores)
    /\ result' = Some(Ok)
    /\ pc' = "done"
    /\ UNCHANGED <<multi, mirror, req, idx, error_stores, invoked, inflight, outcomes,
                   pre, last, defined, parked>>

\* the end of the loop puts the MultiStore back under the default policy
FanOutEndResetsPolicy ==
    /\ pc = "loop"
    /\ idx > Len(Unwrap(mirror).stores)
    /\ result' = Some(IF error_stores = <<>> THEN Ok
                      ELSE Err([tag |-> "MirrorFailedOnStores", errors |-> error_stores]))
    /\ pc' = "done"
    /\ mirrors_policy' = "ContinueOnFailure"
    /\ UNCHANGED <<primary, stores, mirrors, mirror, req, idx, error_stores, invoked,
                   inflight, outcomes, pre, last, defined, parked>>

\* the loop is over: Ok, or the accumulated failures
FanOutEnd ==
    /\ pc = "loop"
    /\ idx > Len(Unwrap(mirror).stores)
    /\ result' = Some(IF error_stores = <<>> THEN Ok
                      ELSE Err([tag |-> "MirrorFailedOnStores", errors |-> error_stores]))
    /\ pc' = "done"
    /\ UNCHANGED <<multi, mirror, req, idx, error_stores, invoked, inflight, outcomes,
                   pre, last, defined, parked>>

\* the Mirror goes out of scope and the MultiStore can be mutated again
DropMirror ==
    /\ pc \in {"ready", "done"}
    /\ mirror' = None
    /\ pc' = "idle"
    /\ req' = None
    /\ idx' = 0
    /\ error_stores' = <<>>
    /\ result' = None
    /\ invoked' = <<>>
    /\ inflight' = {}
    /\ outcomes' = <<>>
    /\ pre' = None
    /\ last' = [op |-> "drop"]
    /\ UNCHANGED <<multi, defined, parked>>

\* ---------------------------------------------------------------- two tasks
\* Two tasks share the MultiStore by reference.  The variables mirror .. outcomes
\* belong to the task that takes the next step; those of the other task are parked.
Context ==
    [mirror |-> mirror, pc |-> pc, req |-> req, idx |-> idx,
     error_stores |-> error_stores, result |-> result, invoked |-> invoked,
     inflight |-> inflight, outcomes |-> outcomes]

\* a second task is spawned; it holds no Mirror yet
Fork ==
    /\ pc = "idle"
    /\ parked = None
    /\ parked' = Some([mirror |-> None, pc |-> "idle", req |-> None, idx |-> 0,
                       error_stores |-> <<>>, result |-> None, invoked |-> <<>>,
                       inflight |-> {}, outcomes |-> <<>>])
    /\ last' = [op |-> "spawn", before |-> primary]
    /\ UNCHANGED <<multi, mirror, pc, fanout, defined>>

\* the other task takes the next step
Yield ==
    /\ parked # None
    /\ parked' = Some(Context)
    /\ mirror' = Unwrap(parked).mirror
    /\ pc' = Unwrap(parked).pc
    /\ req' = Unwrap(parked).req
    /\ idx' = Unwrap(parked).idx
    /\ error_stores' = Unwrap(parked).error_stores
    /\ result' = Unwrap(parked).result
    /\ invoked' = Unwrap(parked).invoked
    /\ inflight' = Unwrap(parked).inflight
    /\ outcomes' = Unwrap(parked).outcomes
    /\ UNCHANGED <<multi, pre, last, defined>>

\* ---------------------------------------------------------------- in-memory locks
\* The calls of the in-memory driver on the primary Store, one step for each time
\* a Mutex is taken; between two steps the other task may run.
Enter(r) ==
    /\ pc = "idle"
    /\ parked # None
    /\ primary.kind = "inmem"
    /\ req' = Some(r)
    /\ pc' = IF r.op = "write" THEN "write.files"
             ELSE IF r.op = "delete" THEN "delete.files"
             ELSE "delete_directory.contains_key"
    /\ UNCHANGED <<multi, mirror, idx, error_stores, result, invoked, inflight, outcomes,
                   pre, last, defined, parked>>

\* write: self.files.lock().unwrap().insert(path, File { .. })
WriteInsert ==
    /\ pc = "write.files"
    /\ primary' = [primary EXCEPT
                       !.files = Put(primary.files, Unwrap(req).path, Unwrap(req).content)]
    /\ IF Parent(Unwrap(req).path) = None
       THEN pc' = "done" /\ result' = Some(Ok)
       ELSE pc' = "write.directory" /\ UNCHANGED result
    /\ UNCHANGED <<stores, mirrors, mirrors_policy, mirror, req, idx, error_stores,
                   invoked, inflight, outcomes, pre, last, defined, parked>>

\* write: self.directory.lock().unwrap().entry(parent).or_default().push(path)
WritePush ==
    /\ pc = "write.directory"
    /\ LET path == Unwrap(req).path
           parent == Unwrap(Parent(path))
           old == IF parent \in DOMAIN primary.directory THEN primary.directory[parent]
                  ELSE <<>>
       IN primary' = [primary EXCEPT
                         !.directory = Put(primary.directory, parent, Append(old, path))]
    /\ pc' = "done"
    /\ result' = Some(Ok)
    /\ UNCHANGED <<stores, mirrors, mirrors_policy, mirror, req, idx, error_stores,
                   invoked, inflight, outcomes, pre, last, defined, parked>>

\* delete: self.files.lock().unwrap().remove(path).is_none()
DeleteRemove ==
    /\ pc = "delete.files"
    /\ IF Unwrap(req).path \notin DOMAIN primary.files
       THEN /\ pc' = "done"
            /\ result' = Some(Err("ResourceNotFound"))
            /\ UNCHANGED primary
       ELSE /\ primary' = [primary EXCEPT
                               !.files = Retain(primary.files,
                                                (DOMAIN primary.files) \ {Unwrap(req).path})]
            /\ pc' = "delete.directory"
            /\ UNCHANGED result
    /\ UNCHANGED <<stores, mirrors, mirrors_policy, mirror, req, idx, error_stores,
                   invoked, inflight, outcomes, pre, last, defined, parked>>

\* delete: self.directory.lock().unwrap().entry(parent).or_default().retain(..)
DeleteRetain ==
    /\ pc = "delete.directory"
    /\ LET path == Unwrap(req).path
           parent == Unwrap(Parent(path))
           old == IF parent \in DOMAIN primary.directory THEN primary.directory[parent]
                  ELSE <<>>
           NotPath(x) == x # path
       IN primary' = [primary EXCEPT
                         !.directory = Put(primary.directory, parent,
                                           SelectSeq(old, NotPath))]
    /\ pc' = "done"
    /\ result' = Some(Ok)
    /\ UNCHANGED <<stores, mirrors, mirrors_policy, mirror, req, idx, error_stores,
                   invoked, inflight, outcomes, pre, last, defined, parked>>

\* delete_directory: !self.directory.lock().unwrap().contains_key(path)
DeleteDirectoryContainsKey ==
    /\ pc = "delete_directory.contains_key"
    /\ IF Unwrap(req).path \notin DOMAIN primary.directory
       THEN pc' = "done" /\ result' = Some(Err("ResourceNotFound"))
       ELSE pc' = "delete_directory.directory" /\ UNCHANGED result
    /\ UNCHANGED <<multi, mirror, req, idx, error_stores, invoked, inflight, outcomes,
                   pre, last, defined, parked>>

\* delete_directory: self.directory.lock().unwrap().retain(..)
DeleteDirectoryRetainDirectory ==
    /\ pc = "delete_directory.directory"
    /\ primary' = [primary EXCEPT
                       !.directory = Retain(primary.directory,
                                            {k \in DOMAIN primary.directory :
                                                 ~StartsWith(k, Unwrap(req).path)})]
    /\ pc' = "delete_directory.files"
    /\ UNCHANGED <<stores, mirrors, mirrors_policy, mirror, req, idx, error_stores,
                   result, invoked, inflight, outcomes, pre, last, defined, parked>>

\* delete_directory: self.files.lock().unwrap().retain(..)
DeleteDirectoryRetainFiles ==
    /\ pc = "delete_directory.files"
    /\ primary' = [primary EXCEPT
                       !.files = Retain(primary.files,
                                        {k \in DOMAIN primary.files :
                                             ~StartsWith(k, Unwrap(req).path)})]
    /\ pc' = "done"
    /\ result' = Some(Ok)
    /\ UNCHANGED <<stores, mirrors, mirrors_policy, mirror, req, idx, error_stores,
                   invoked, inflight, outcomes, pre, last, defined, parked>>

\* ---------------------------------------------------------------- Store calls
\* Calls made on one Store of the MultiStore, the public field primary or a value
\* of stores, while no Mirror lives.  A write is taken only while the in-memory
\* directory Vec it pushes to has room (MaxDirLen).  A call whose error conversion
\* does not return leaves the caller at "hung".
HasStore(ref) == IF ref.field = "primary" THEN TRUE ELSE ref.name \in DOMAIN stores

\* every Store of the MultiStore is one shared state
SetStoreShared(ref, st) ==
    primary' = st /\ stores' = [n \in DOMAIN stores |-> st]

SetStore(ref, st) ==
    IF ref.field = "primary"
    THEN primary' = st /\ stores' = stores
    ELSE primary' = primary /\ stores' = [stores EXCEPT ![ref.name] = st]

AfterCall(ret) == IF ret = Err("NeverReturns") THEN "hung" ELSE "idle"

WriteCall(ref, path, content) ==
    /\ pc = "idle"
    /\ HasStore(ref)
    /\ DirLen(Deref(ref), path) < MaxDirLen
    /\ \E net \in StoreNet(Deref(ref)) :
         LET call == StoreWrite(Deref(ref), path, content, net)
         IN /\ SetStore(ref, call.st)
            /\ pc' = AfterCall(call.res)
            /\ last' = [op |-> "write", ref |-> ref, path |-> path, content |-> content,
                        ret |-> call.res, before |-> Deref(ref)]
    /\ UNCHANGED <<mirrors, mirrors_policy, mirror, fanout, defined, parked>>

ReadCall(ref, path, T) ==
    /\ pc = "idle"
    /\ HasStore(ref)
    /\ \E net \in StoreNet(Deref(ref)) :
         LET ret == StoreRead(Deref(ref), path, T, net)
         IN /\ pc' = AfterCall(ret)
            /\ last' = [op |-> "read", ref |-> ref, path |-> path, T |-> T,
                        ret |-> ret, before |-> Deref(ref)]
    /\ UNCHANGED <<multi, mirror, fanout, defined, parked>>

FileExistsCall(ref, path) ==
    /\ pc = "idle"
    /\ HasStore(ref)
    /\ \E net \in StoreNet(Deref(ref)) :
         last' = [op |-> "file_exists", ref |-> ref, path |-> path,
                  ret |-> StoreFileExists(Deref(ref), path, net), before |-> Deref(ref)]
    /\ UNCHANGED <<multi, mirror, pc, fanout, defined, parked>>

DeleteCall(ref, path) ==
    /\ pc = "idle"
    /\ HasStore(ref)
    /\ \E net \in StoreNet(Deref(ref)) :
         LET call == StoreDelete(Deref(ref), path, net)
         IN /\ SetStore(ref, call.st)
            /\ pc' = AfterCall(call.res)
            /\ last' = [op |-> "delete", ref |-> ref, path |-> path, ret |-> call.res,
                        before |-> Deref(ref)]
    /\ UNCHANGED <<mirrors, mirrors_policy, mirror, fanout, defined, parked>>

DeleteDirectoryCall(ref, path) ==
    /\ pc = "idle"
    /\ HasStore(ref)
    /\ \E net \in StoreNet(Deref(ref)) :
         LET call == StoreDeleteDirectory(Deref(ref), path, net)
         IN /\ SetStore(ref, call.st)
            /\ pc' = AfterCall(call.res)
            /\ last' = [op |-> "delete_directory", ref |-> ref, path |-> path,
                        ret |-> call.res, before |-> Deref(ref)]
    /\ UNCHANGED <<mirrors, mirrors_policy, mirror, fanout, defined, parked>>

LastModifiedCall(ref, path) ==
    /\ pc = "idle"
    /\ HasStore(ref)
    /\ \E net \in StoreNet(Deref(ref)) :
         last' = [op |-> "last_modified", ref |-> ref, path |-> path,
                  ret |-> StoreLastModified(Deref(ref), path, net), before |-> Deref(ref)]
    /\ UNCHANGED <<multi, mirror, pc, fanout, defined, parked>>

\* add_stores with one entry, a clone of the Store at ref
CloneCall(ref, name) ==
    /\ pc = "idle"
    /\ HasStore(ref)
    /\ stores' = InsertAll(stores, [n \in {name} |-> StoreClone(Deref(ref))])
    /\ last' = [op |-> "clone", ref |-> ref, name |-> name, before |-> Deref(ref)]
    /\ UNCHANGED <<primary, mirrors, mirrors_policy, mirror, pc, fanout, defined, parked>>

\* ---------------------------------------------------------------- inputs
\* the name -> Store maps add_stores is called with: names from N, Stores from F
GivenStores(N, F) == UNION {[S -> F] : S \in SUBSET N}

\* the sequences over S of length at most n
RECURSIVE SeqsUpTo(_, _)
SeqsUpTo(S, n) ==
    IF n = 0 THEN {<<>>}
    ELSE LET shorter == SeqsUpTo(S, n - 1)
         IN shorter \cup {Append(s, x) : s \in {t \in shorter : Len(t) = n - 1}, x \in S}

\* the membership lists add_mirrors is called with
MemberLists == SeqsUpTo({NameA, NameZ}, MaxMembers)

Requests ==
    [op : {"write"}, path : FilePaths, content : ContentSet]
    \cup [op : {"delete"}, path : FilePaths]
    \cup [op : {"delete_directory"}, path : DirPaths]

\* the calls on the MultiStore, with store names from N, Stores from F and group
\* names from G
Registry(N, F, G) ==
    \/ \E given \in GivenStores(N, F) : AddStores(given)
    \/ \E name \in N : GetStore(name)
    \/ \E policy \in Policies : SetMirrorsPolicy(policy)
    \/ \E name \in G, stores_names \in MemberLists : AddMirrors(name, stores_names)
    \/ MirrorStoresFromPrimary
    \/ \E name \in G : MirrorByName(name)
    \/ DropMirror

\* the fan-out of one request over the live Mirror
FanOut ==
    \/ \E r \in Requests : FanOutStart(r)
    \/ CallBegin
    \/ CallReturn
    \/ FanOutEnd

\* Spec: a MultiStore with secondaries "a" and "z" and one group, and its fan-outs.
\* A Mirror borrows the MultiStore, so no MultiStore call happens while it lives;
\* each Mirror replays one request and is dropped.
Next ==
    \/ Registry({NameA, NameZ}, FreshStores, {"foo"})
    \/ FanOut

Spec == Init /\ [][Next]_vars

\* the Stores StoreConfig::build hands over: in memory, S3, Azure, GCP, and disk
\* with the location "" and the location "tmp"
StoreFresh == {InMemNew, S3New, AzureNew, GcpNew, DiskNew(<<>>), DiskNew(<<"tmp">>)}

\* "d/t" and "t", and the directory "d"
StorePaths == {<<"d", "t">>, <<"t">>}
StoreDirs == {<<"d">>}

\* b"c", "e" with an acute accent in UTF-8, a lead byte with nothing after it, and
\* the byte 0xFF
StoreContents == {<<99>>, <<195, 169>>, <<195>>, <<255>>}

ReadTypes == {"Vec<u8>", "String"}

\* StoreSpec: the calls on one Store of each driver
StoreInit == InitWith(StoreFresh)

\* the calls on the Stores at the references R, with paths from P, directories
\* from D and bodies from C
StoreCalls(R, P, D, C) ==
    \/ \E ref \in R, path \in P, content \in C : WriteCall(ref, path, content)
    \/ \E ref \in R, path \in P, T \in ReadTypes : ReadCall(ref, path, T)
    \/ \E ref \in R, path \in P : FileExistsCall(ref, path)
    \/ \E ref \in R, path \in P : DeleteCall(ref, path)
    \/ \E ref \in R, path \in D : DeleteDirectoryCall(ref, path)
    \/ \E ref \in R, path \in P : LastModifiedCall(ref, path)

StoreNext == StoreCalls({PrimaryRef}, StorePaths, StoreDirs, StoreContents)

StoreSpec == StoreInit /\ [][StoreNext]_vars

\* "t", "d", "d/t" and "d/e/t": a path can be written as an object and be the
\* directory of another; the directories "d" and "d/e"
TreePaths == {<<"t">>, <<"d">>, <<"d", "t">>, <<"d", "e", "t">>}
TreeDirs == {<<"d">>, <<"d", "e">>}
TreeContents == {<<99>>, <<120>>}

\* TreeSpec: the calls on one Store of each driver, over a tree two directories
\* deep
TreeNext == StoreCalls({PrimaryRef}, TreePaths, TreeDirs, TreeContents)

TreeSpec == StoreInit /\ [][TreeNext]_vars

\* CloneSpec: an in-memory primary, its clone kept as the Store "a", and the calls
\* on both
CloneInit == InitWith({InMemNew})

CloneNext ==
    \/ CloneCall(PrimaryRef, NameA)
    \/ StoreCalls({PrimaryRef, StoreRef(NameA)}, FilePaths, DirPaths, TreeContents)

CloneSpec == CloneInit /\ [][CloneNext]_vars

\* FairSpec: a MultiStore whose secondaries are S3 Stores, and its fan-outs, run
\* by a task that keeps stepping its loop and with Store calls that return
FairNext ==
    \/ \E given \in GivenStores({NameA, NameZ}, {S3New}) : AddStores(given)
    \/ \E policy \in Policies : SetMirrorsPolicy(policy)
    \/ \E stores_names \in MemberLists : AddMirrors("foo", stores_names)
    \/ MirrorStoresFromPrimary
    \/ MirrorByName("foo")
    \/ DropMirror
    \/ FanOut

FairSpec ==
    /\ Init
    /\ [][FairNext]_vars
    /\ WF_pc(CallBegin)
    /\ WF_pc(CallReturn)
    /\ WF_pc(FanOutEnd)

\* the error types of the S3 operations the driver calls, the service errors each
\* can carry, and the SdkErrors around them
S3ErrorTypes ==
    {"GetObjectError", "HeadObjectError", "PutObjectError", "DeleteObjectError",
     "DeleteObjectsError", "ListObjectsV2Error"}

ServiceErrors(E) ==
    IF E = "GetObjectError" THEN {"NoSuchKey", "InvalidObjectState", "Unhandled"}
    ELSE IF E = "HeadObjectError" THEN {"NotFound", "Unhandled"}
    ELSE IF E = "ListObjectsV2Error" THEN {"NoSuchBucket", "Unhandled"}
    ELSE {"Unhandled"}

StatusCodes == {400, 403, 404, 500, 503}

SdkErrors(E) ==
    [variant : {"ConstructionFailure", "TimeoutError", "DispatchFailure"}]
    \cup [variant : {"ResponseError"}, status : StatusCodes]
    \cup [variant : {"ServiceError"}, err : ServiceErrors(E)]

\* an S3 operation of the driver failed with an SdkError
ErrorInit ==
    /\ primary = New(S3New).primary
    /\ stores = New(S3New).stores
    /\ mirrors = New(S3New).mirrors
    /\ mirrors_policy = New(S3New).mirrors_policy
    /\ \E E \in S3ErrorTypes : \E kind \in SdkErrors(E) :
         last = [op |-> "sdk_error", E |-> E, kind |-> kind]
    /\ mirror = None
    /\ pc = "idle"
    /\ req = None
    /\ idx = 0
    /\ error_stores = <<>>
    /\ result = None
    /\ invoked = <<>>
    /\ inflight = {}
    /\ outcomes = <<>>
    /\ pre = None
    /\ defined = {}
    /\ parked = None

\* the driver converts it with `?` or e.into()
Into ==
    /\ last.op = "sdk_error"
    /\ last' = [op |-> "into", E |-> last.E, kind |-> last.kind,
                ret |-> Err(SdkErrorInto(last.E, last.kind))]
    /\ UNCHANGED <<multi, mirror, pc, fanout, defined, parked>>

ErrorNext == Into

\* ErrorSpec: the conversion of every SdkError of every S3 operation
ErrorSpec == ErrorInit /\ [][ErrorNext]_vars

\* RegistrySpec: the MultiStore calls alone, over every name and group
RegistryNext == Registry(StoreNames, {InMemNew}, GroupNames)

RegistrySpec == Init /\ [][RegistryNext]_vars

\* RebindSpec: in-memory Stores are registered, the group "foo" is defined once,
\* and from then on add_stores registers S3 Stores; the fan-outs of the Mirrors
RebindNext ==
    \/ /\ DOMAIN mirrors = {}
       /\ \E given \in GivenStores({NameA, NameZ}, {InMemNew}) : AddStores(given)
    \/ /\ DOMAIN mirrors = {}
       /\ \E stores_names \in MemberLists : AddMirrors("foo", stores_names)
    \/ /\ DOMAIN mirrors # {}
       /\ \E given \in GivenStores({NameA, NameZ}, {S3New}) : AddStores(given)
    \/ \E policy \in Policies : SetMirrorsPolicy(policy)
    \/ MirrorStoresFromPrimary
    \/ MirrorByName("foo")
    \/ DropMirror
    \/ FanOut

RebindSpec == InitWith({InMemNew}) /\ [][RebindNext]_vars

\* RaceSpec: the store "a" is registered, a second task is spawned, and each task
\* takes a Mirror of the primary and of "a" and writes d/t through it
RaceRequests == [op : {"write"}, path : FilePaths, content : TreeContents]

RaceNext ==
    \/ /\ parked = None
       /\ \E given \in GivenStores({NameA}, FreshStores) : AddStores(given)
    \/ Fork
    \/ /\ parked # None
       /\ MirrorStoresFromPrimary
    \/ \E r \in RaceRequests : FanOutStart(r)
    \/ CallBegin
    \/ CallReturn
    \/ FanOutEnd
    \/ Yield

RaceSpec == Init /\ [][RaceNext]_vars

\* LockSpec: one task writes and deletes on an in-memory primary, a second task
\* is spawned, and each of the two makes one call that the other can interleave
\* with wherever a lock is released
LockNext ==
    \/ /\ parked = None
       /\ \E path \in FilePaths, content \in TreeContents :
              WriteCall(PrimaryRef, path, content)
    \/ /\ parked = None
       /\ \E path \in FilePaths : DeleteCall(PrimaryRef, path)
    \/ Fork
    \/ \E r \in RaceRequests \cup [op : {"delete"}, path : FilePaths]
                              \cup [op : {"delete_directory"}, path : DirPaths] : Enter(r)
    \/ WriteInsert
    \/ WritePush
    \/ DeleteRemove
    \/ DeleteRetain
    \/ DeleteDirectoryContainsKey
    \/ DeleteDirectoryRetainDirectory
    \/ DeleteDirectoryRetainFiles
    \/ Yield

LockSpec == CloneInit /\ [][LockNext]_vars

\* ---------------------------------------------------------------- properties
Targets == Unwrap(mirror).stores
TargetKeys == BTreeKeys(Targets)
TargetRef(name) == (CHOOSE i \in 1..Len(Targets) : Targets[i].key = name)

PreStore(ref) ==
    IF ref.field = "primary" THEN Unwrap(pre).primary ELSE Unwrap(pre).stores[ref.name]

Failed == {i \in 1..Len(outcomes) : ~outcomes[i].res.ok}
Range(f) == {f[x] : x \in DOMAIN f}
Ascending(keys) == \A i \in 1..(Len(keys) - 1) : StrLess(keys[i], keys[i + 1])

\* C1: under ContinueOnFailure a finished fan-out has called every target exactly
\* once, in target order, whatever failed before; it returns Ok iff no call failed,
\* and otherwise MirrorFailedOnStores whose keys are exactly the failing targets,
\* each mapped to the error its own call returned.
C1_ContinueOnFailureReportsEveryFailure ==
    (pc = "done" /\ Unwrap(mirror).policy = "ContinueOnFailure") =>
        /\ invoked = TargetKeys
        /\ [i \in 1..Len(outcomes) |-> outcomes[i].name] = TargetKeys
        /\ (result = Some(Ok)) <=> (Failed = {})
        /\ Failed # {} =>
             LET ret == Unwrap(result)
             IN /\ ~ret.ok
                /\ ret.err.tag = "MirrorFailedOnStores"
                /\ Range(BTreeKeys(ret.err.errors)) = {outcomes[i].name : i \in Failed}
                /\ Len(ret.err.errors) = Cardinality(Failed)
                /\ \A i \in Failed : \E j \in 1..Len(ret.err.errors) :
                       /\ ret.err.errors[j].key = outcomes[i].name
                       /\ ret.err.errors[j].val = outcomes[i].res.err

\* a fan-out over three targets whose first call failed and whose last call succeeded
W_C1_FailureThenSuccess ==
    /\ pc = "done"
    /\ Unwrap(mirror).policy = "ContinueOnFailure"
    /\ Len(outcomes) = 3
    /\ ~outcomes[1].res.ok
    /\ outcomes[3].res.ok
    /\ ~Unwrap(result).ok

\* C2: under StopOnFailure a fan-out in which a call failed ends at that call: the
\* failing call is the last one made and the only one that failed, the fan-out
\* returns MirrorFailedOnStore with that target's name and error, and the targets
\* ordered after it are not called and hold what they held before.
C2_StopOnFailureStopsAtFirstFailure ==
    (pc = "done" /\ Unwrap(mirror).policy = "StopOnFailure" /\ Failed # {}) =>
        LET k == Len(outcomes)
        IN /\ Failed = {k}
           /\ invoked = SubSeq(TargetKeys, 1, k)
           /\ \A j \in (k + 1)..Len(Targets) : StrLess(outcomes[k].name, Targets[j].key)
           /\ result = Some(Err([tag |-> "MirrorFailedOnStore",
                                 name |-> outcomes[k].name,
                                 error |-> outcomes[k].res.err]))
           /\ \A j \in (k + 1)..Len(Targets) :
                  Deref(Targets[j].val) = PreStore(Targets[j].val)

\* the first of three targets failed and the other two were left alone
W_C2_FirstTargetFails ==
    /\ pc = "done"
    /\ Unwrap(mirror).policy = "StopOnFailure"
    /\ Len(Targets) = 3
    /\ Len(outcomes) = 1
    /\ ~outcomes[1].res.ok
    /\ Unwrap(req).op = "write"

\* C3: within a fan-out the targets are called in ascending order of their names,
\* none skipped, and a call begins only when every earlier call has returned: at
\* most one call is in flight.
C3_SequentialInNameOrder ==
    pc \in {"loop", "call", "done"} =>
        /\ Cardinality(inflight) <= 1
        /\ Len(invoked) = Len(outcomes) + Cardinality(inflight)
        /\ Len(invoked) <= Len(Targets)
        /\ invoked = SubSeq(TargetKeys, 1, Len(invoked))
        /\ Ascending(invoked)

\* the third call is in flight after "a" and "primary" returned
W_C3_ThirdCallInFlight ==
    /\ pc = "call"
    /\ invoked = <<NameA, PRIMARY, NameZ>>
    /\ Len(outcomes) = 2
    /\ inflight = {NameZ}

\* C4: the Mirror built by mirror_stores_from_primary has as target names exactly
\* "primary" and the registered secondary names, in ascending order.
C4_FromPrimaryTargetNames ==
    (pc = "ready" /\ last.op = "mirror_stores_from_primary") =>
        /\ Range(TargetKeys) = {PRIMARY} \cup DOMAIN stores
        /\ Ascending(TargetKeys)

\* two secondaries, one ordered before "primary" and one after
W_C4_ThreeTargets ==
    /\ pc = "ready"
    /\ last.op = "mirror_stores_from_primary"
    /\ DOMAIN stores = {NameA, NameZ}
    /\ TargetKeys = <<NameA, PRIMARY, NameZ>>

\* C5: the Mirror built by mirror_stores_from_primary pairs the target name
\* "primary" with the primary Store of the MultiStore.
C5_PrimaryPairedWithPrimaryStore ==
    (pc = "ready" /\ last.op = "mirror_stores_from_primary") =>
        \E i \in 1..Len(Targets) :
            Targets[i].key = PRIMARY /\ Targets[i].val = PrimaryRef

\* the bytes of s cut at every sep
RECURSIVE SplitBytes(_, _)
SplitBytes(s, sep) ==
    IF \A i \in 1..Len(s) : s[i] # sep THEN <<s>>
    ELSE LET i == CHOOSE i \in 1..Len(s) : s[i] = sep /\ \A j \in 1..(i - 1) : s[j] # sep
         IN <<SubSeq(s, 1, i - 1)>> \o SplitBytes(SubSeq(s, i + 1, Len(s)), sep)

\* the names of the list that are not in S, in the order of the list
RECURSIVE NamesOutside(_, _)
NamesOutside(names, S) ==
    IF names = <<>> THEN <<>>
    ELSE IF Head(names) \in S THEN NamesOutside(Tail(names), S)
    ELSE <<Head(names)>> \o NamesOutside(Tail(names), S)

\* C6: add_mirrors fails iff some name of the list is not registered, and the
\* message then reads "the stores: <names> not defined" with every unregistered
\* name of the list, in the order given, separated by commas.
C6_AddMirrorsReportsEveryUnknownName ==
    last.op = "add_mirrors" =>
        /\ ~last.ret.ok <=> (\E i \in 1..Len(last.names) : last.names[i] \notin DOMAIN stores)
        /\ ~last.ret.ok =>
             /\ last.ret.err.prefix = "the stores: "
             /\ last.ret.err.suffix = " not defined"
             /\ SplitBytes(last.ret.err.joined, 44) = NamesOutside(last.names, DOMAIN stores)

\* both names of the list are unregistered and are reported as given: "z,a"
W_C6_TwoUnknownNames ==
    /\ last.op = "add_mirrors"
    /\ last.names = <<NameZ, NameA>>
    /\ ~last.ret.ok
    /\ last.ret.err.joined = <<122, 44, 97>>

\* C7: a successful add_mirrors(group, names) makes names the list of group,
\* replacing the list it had, and changes no other group, no registry entry, not
\* the policy and not the primary Store.
C7_AddMirrorsReplacesOnlyItsGroup ==
    [][(last'.op = "add_mirrors" /\ last'.ret.ok) =>
          /\ DOMAIN mirrors' = (DOMAIN mirrors) \cup {last'.name}
          /\ mirrors'[last'.name] = last'.names
          /\ \A g \in (DOMAIN mirrors) \ {last'.name} : mirrors'[g] = mirrors[g]
          /\ stores' = stores
          /\ mirrors_policy' = mirrors_policy
          /\ primary' = primary]_vars

\* a group is redefined with another list while a second group exists
W_C7_GroupRedefined ==
    /\ last.op = "add_mirrors"
    /\ last.ret.ok
    /\ last.old # None
    /\ Unwrap(last.old) # last.names
    /\ DOMAIN mirrors = GroupNames

\* C8: mirror(group) returns a Mirror iff some add_mirrors call accepted group; the
\* Mirror's targets are the registry entries whose names are in the group's list,
\* each name once, in ascending order, under the active policy.
C8_MirrorTargetsAreTheGroupMembers ==
    (last.op = "mirror" /\ pc \in {"idle", "ready"}) =>
        /\ (last.ret # None) <=> (last.name \in defined)
        /\ last.ret = mirror
        /\ last.ret # None =>
             /\ Range(TargetKeys) =
                    {n \in DOMAIN stores : Contains(mirrors[last.name], n)}
             /\ Range(TargetKeys) = Range(mirrors[last.name])
             /\ Ascending(TargetKeys)
             /\ \A i \in 1..Len(Targets) : Targets[i].val = StoreRef(Targets[i].key)
             /\ Unwrap(mirror).policy = mirrors_policy

\* the group lists one of two registered stores, and the Mirror has that one target
W_C8_GroupOfOneAmongTwo ==
    /\ last.op = "mirror"
    /\ pc = "ready"
    /\ Cardinality(DOMAIN stores) = 2
    /\ Len(Targets) = 1
    /\ mirrors[last.name] = <<Targets[1].key>>

\* C9: during and after a fan-out through mirror(group), only members of the group
\* are called, and the primary Store and every registered store that is not a
\* member hold what they held before.
C9_GroupFanOutLeavesNonMembersAlone ==
    (last.op = "mirror" /\ pc \in {"loop", "call", "done"}) =>
        /\ \A i \in 1..Len(invoked) : Contains(mirrors[last.name], invoked[i])
        /\ \A i \in 1..Len(Targets) : Targets[i].val # PrimaryRef
        /\ primary = Unwrap(pre).primary
        /\ \A n \in DOMAIN stores :
               ~Contains(mirrors[last.name], n) => stores[n] = Unwrap(pre).stores[n]

\* a write through a group changed its member while another store is registered
W_C9_MemberWrittenNonMemberRegistered ==
    /\ last.op = "mirror"
    /\ pc = "done"
    /\ Unwrap(req).op = "write"
    /\ result = Some(Ok)
    /\ \E n \in DOMAIN stores : ~Contains(mirrors[last.name], n)
    /\ \E n \in DOMAIN stores : stores[n] # Unwrap(pre).stores[n]

\* C10: when a fan-out write failed on some target, every target whose write call
\* returned Ok holds the written content afterwards; under ContinueOnFailure the
\* failure returned names exactly the targets whose call failed.
C10_NoRollbackOfSuccessfulWrites ==
    (pc = "done" /\ Unwrap(req).op = "write" /\ Failed # {}) =>
        /\ \A i \in 1..Len(outcomes) :
               outcomes[i].res.ok =>
                   Holds(Deref(Targets[TargetRef(outcomes[i].name)].val), Unwrap(req).path)
                       = Some(Unwrap(req).content)
        /\ Unwrap(mirror).policy = "ContinueOnFailure" =>
               /\ ~Unwrap(result).ok
               /\ Range(BTreeKeys(Unwrap(result).err.errors))
                      = {outcomes[i].name : i \in Failed}

\* two targets under ContinueOnFailure: the first fails, the second did not hold
\* the object and holds it now
W_C10_FirstFailsSecondKeepsWrite ==
    /\ pc = "done"
    /\ Unwrap(req).op = "write"
    /\ Unwrap(mirror).policy = "ContinueOnFailure"
    /\ Len(Targets) = 2
    /\ Len(outcomes) = 2
    /\ ~outcomes[1].res.ok
    /\ outcomes[2].res.ok
    /\ Holds(PreStore(Targets[2].val), Unwrap(req).path) = None
    /\ Holds(Deref(Targets[2].val), Unwrap(req).path) = Some(Unwrap(req).content)
    /\ BTreeKeys(Unwrap(result).err.errors) = <<Targets[1].key>>

\* the keys a Store holds under the directory d
ObjectsUnder(st, d) ==
    IF st.kind = "s3"
    THEN {k \in DOMAIN st.objects : StrHasPrefix(k, PathToStr(d) \o <<"/">>)}
    ELSE {k \in DOMAIN st.files : StartsWith(k, d) /\ k # d}

\* C11: when a fan-out returned Ok, every target of the Mirror shows the effect:
\* after write(p, b) each target holds b at p, after delete(p) none holds an object
\* at p, after delete_directory(d) none holds an object under d.
C11_OkFanOutTookEffectOnEveryTarget ==
    (pc = "done" /\ result = Some(Ok)) =>
        \A i \in 1..Len(Targets) :
            LET st == Deref(Targets[i].val)
                r == Unwrap(req)
            IN /\ Len(outcomes) = Len(Targets)
               /\ r.op = "write" => Holds(st, r.path) = Some(r.content)
               /\ r.op = "delete" => Holds(st, r.path) = None
               /\ r.op = "delete_directory" => ObjectsUnder(st, r.path) = {}

\* delete_directory returned Ok over three targets, each of which held d/t, one of
\* them in memory and one in a bucket
W_C11_DirectoryGoneOnThreeTargets ==
    /\ pc = "done"
    /\ result = Some(Ok)
    /\ Unwrap(req).op = "delete_directory"
    /\ Len(Targets) = 3
    /\ \A i \in 1..3 : ObjectsUnder(PreStore(Targets[i].val), Unwrap(req).path) # {}
    /\ \E i, j \in 1..3 : /\ Deref(Targets[i].val).kind = "inmem"
                          /\ Deref(Targets[j].val).kind = "s3"

\* C12: the variant of a fan-out failure follows the policy of the Mirror: never
\* MirrorFailedOnStore under ContinueOnFailure, never MirrorFailedOnStores under
\* StopOnFailure; a fan-out with a failed target call never returns Ok, and the
\* error of every failed call is in the failure returned.
C12_FailureShapeFollowsPolicy ==
    pc = "done" =>
        LET ret == Unwrap(result)
            policy == Unwrap(mirror).policy
        IN /\ (policy = "ContinueOnFailure" /\ ~ret.ok) =>
                  ret.err.tag = "MirrorFailedOnStores"
           /\ (policy = "StopOnFailure" /\ ~ret.ok) =>
                  ret.err.tag = "MirrorFailedOnStore"
           /\ Failed # {} => ~ret.ok
           /\ \A i \in Failed :
                  IF ret.err.tag = "MirrorFailedOnStores"
                  THEN \E j \in 1..Len(ret.err.errors) :
                           ret.err.errors[j] =
                               [key |-> outcomes[i].name, val |-> outcomes[i].res.err]
                  ELSE /\ ret.err.name = outcomes[i].name
                       /\ ret.err.error = outcomes[i].res.err

\* under ContinueOnFailure two of three target calls failed, with different errors
W_C12_TwoFailuresOfThree ==
    /\ pc = "done"
    /\ Unwrap(mirror).policy = "ContinueOnFailure"
    /\ Len(outcomes) = 3
    /\ Cardinality(Failed) = 2
    /\ \E i, j \in Failed : outcomes[i].res.err # outcomes[j].res.err
    /\ Unwrap(result).err.tag = "MirrorFailedOnStores"

\* C13: no step of a Mirror write, delete or delete_directory, whether it succeeds
\* or fails, changes the names in the registry, a mirror group or the policy of the
\* MultiStore.
C13_MirrorNeverMutatesMultiStore ==
    [][pc' \in {"loop", "call", "done"} =>
          /\ DOMAIN stores' = DOMAIN stores
          /\ mirrors' = mirrors
          /\ mirrors_policy' = mirrors_policy]_vars

\* a fan-out under StopOnFailure failed after it had changed a registered Store,
\* and the group is still defined
W_C13_FailedFanOutChangedAStore ==
    /\ pc = "done"
    /\ ~Unwrap(result).ok
    /\ mirrors_policy = "StopOnFailure"
    /\ DOMAIN mirrors # {}
    /\ \E n \in DOMAIN stores : stores[n] # Unwrap(pre).stores[n]

\* C14: MultiStore::new(primary) returns a MultiStore around the given Store with
\* no registered secondary, no mirror group and policy ContinueOnFailure.
C14_NewIsEmptyUnderContinueOnFailure ==
    last.op = "new" =>
        /\ primary = last.store
        /\ DOMAIN stores = {}
        /\ DOMAIN mirrors = {}
        /\ mirrors_policy = "ContinueOnFailure"

\* the MultiStore just built around an S3 Store
W_C14_NewAroundS3 ==
    /\ last.op = "new"
    /\ primary = S3New
    /\ pc = "idle"

\* C15: add_stores(given) leaves get_store(n) at the Store given for n when given
\* has the name n, whatever was registered under n before, and at what it was for
\* every other name; no other call makes get_store return a Store for a name that
\* had none or nothing for a name that had one, and get_store itself returns the
\* registry's entry and changes nothing.
C15_AddStoresMergesAndOverwrites ==
    [][/\ last'.op = "add_stores" =>
             \A n \in StoreNames :
                 HashMapGet(stores', n) =
                     IF n \in DOMAIN last'.given THEN Some(last'.given[n])
                     ELSE HashMapGet(stores, n)
       /\ last'.op # "add_stores" =>
             \A n \in StoreNames :
                 (HashMapGet(stores', n) = None) <=> (HashMapGet(stores, n) = None)
       /\ last'.op = "get_store" =>
             /\ last'.ret = HashMapGet(stores, last'.name)
             /\ stores' = stores]_vars

\* add_stores gave "a" an S3 Store in place of an in-memory Store that held an
\* object, and left "z" registered as it was
W_C15_CollidingNameOverwritten ==
    /\ last.op = "add_stores"
    /\ DOMAIN last.given = {NameA}
    /\ DOMAIN last.old = {NameA, NameZ}
    /\ last.old[NameA].kind = "inmem"
    /\ Holds(last.old[NameA], <<"d", "t">>) # None
    /\ stores[NameA] = S3New
    /\ stores[NameZ] = last.old[NameZ]

\* C16: set_mirrors_policy(p) makes p the policy of the MultiStore and changes
\* neither the registry, nor a group, nor the primary Store; no other call changes
\* the policy; every live Mirror, from the primary or from a group, carries the
\* policy of the MultiStore, and a fan-out that fails returns the variant of it.
C16_PolicyIsGlobalAndReplaced ==
    [][/\ last'.op = "set_mirrors_policy" =>
             /\ mirrors_policy' = last'.policy
             /\ stores' = stores
             /\ mirrors' = mirrors
             /\ primary' = primary
       /\ last'.op # "set_mirrors_policy" => mirrors_policy' = mirrors_policy
       /\ mirror' # None => Unwrap(mirror').policy = mirrors_policy'
       /\ (pc' = "done" /\ ~Unwrap(result').ok) =>
             Unwrap(result').err.tag =
                 IF mirrors_policy' = "StopOnFailure" THEN "MirrorFailedOnStore"
                 ELSE "MirrorFailedOnStores"]_vars

\* the policy was set to StopOnFailure (new gives ContinueOnFailure), and a
\* fan-out through a group of two then failed with the single-store variant
W_C16_GroupFanOutUnderSetPolicy ==
    /\ pc = "done"
    /\ last.op = "mirror"
    /\ mirrors_policy = "StopOnFailure"
    /\ Len(Targets) = 2
    /\ ~Unwrap(result).ok
    /\ Unwrap(result).err.tag = "MirrorFailedOnStore"

\* file_exists(p) answers true when the service answers
ExistsTrue(st, p) == StoreFileExists(st, p, "ok") = [ok |-> TRUE, val |-> TRUE]

\* the call recorded in l removed p: delete(p) or delete_directory of a directory
\* above p returned Ok
Removed(l, p) ==
    /\ l.op \in {"delete", "delete_directory"}
    /\ l.ret.ok
    /\ IF l.op = "delete" THEN l.path = p ELSE StartsWith(p, l.path) /\ p # l.path

\* C17: on a Store of any driver, once write(p, b) returned Ok, file_exists(p)
\* returns true, and it goes on returning true over every call that does not
\* delete p.
C17_FileExistsAfterWrite ==
    [][\A p \in StorePaths :
          /\ (last'.op = "write" /\ last'.path = p /\ last'.ret.ok) =>
                 ExistsTrue(primary', p)
          /\ (ExistsTrue(primary, p) /\ ~Removed(last', p)) =>
                 ExistsTrue(primary', p)]_vars

\* the contents that are UTF-8 with the text they spell ("c", and U+00E9), and
\* those that are not UTF-8
ValidUtf8 == {<<99>>, <<195, 169>>}
InvalidUtf8 == {<<195>>, <<255>>}
TextOf(b) == IF b = <<99>> THEN <<99>> ELSE <<233>>

\* C18: after write(p, b) returned Ok, reading p as bytes returns b and, when b is
\* UTF-8, reading p as String returns the text b spells; a read call on a path the
\* Store holds returns just that unless the transport fails.
C18_ReadReturnsWhatWasWritten ==
    /\ (last.op = "write" /\ last.ret.ok) =>
           /\ StoreRead(primary, last.path, "Vec<u8>", "ok")
                  = [ok |-> TRUE, val |-> last.content]
           /\ last.content \in ValidUtf8 =>
                  StoreRead(primary, last.path, "String", "ok")
                      = [ok |-> TRUE, val |-> TextOf(last.content)]
    /\ (last.op = "read" /\ Holds(primary, last.path) # None) =>
           LET b == Unwrap(Holds(primary, last.path))
           IN (last.T = "Vec<u8>" \/ b \in ValidUtf8) =>
                  \/ last.ret = [ok |-> TRUE,
                                 val |-> IF last.T = "String" THEN TextOf(b) ELSE b]
                  \/ primary.kind = "s3" /\ last.ret = Err("Network")

\* a disk Store with a location returned the text U+00E9 for the two bytes written
W_C18_TwoByteCharacterReadFromDisk ==
    /\ last.op = "read"
    /\ last.T = "String"
    /\ last.ret = [ok |-> TRUE, val |-> <<233>>]
    /\ primary.kind = "disk"
    /\ primary.location = <<"tmp">>
    /\ Holds(primary, last.path) = Some(<<195, 169>>)

\* C19: while the bytes stored at p are not UTF-8, reading p as String fails with
\* DecodeError and reading p as bytes returns the stored bytes; a read, failed or
\* not, leaves the Store as it was.
C19_InvalidUtf8IsDecodeError ==
    /\ \A p \in StorePaths :
           (Holds(primary, p) # None /\ Unwrap(Holds(primary, p)) \in InvalidUtf8) =>
               /\ StoreRead(primary, p, "String", "ok") = Err("DecodeError")
               /\ StoreRead(primary, p, "Vec<u8>", "ok")
                      = [ok |-> TRUE, val |-> Unwrap(Holds(primary, p))]
    /\ last.op = "read" =>
           /\ primary = last.before
           /\ (/\ last.T = "String"
               /\ Holds(primary, last.path) # None
               /\ Unwrap(Holds(primary, last.path)) \in InvalidUtf8) =>
                  \/ last.ret = Err("DecodeError")
                  \/ primary.kind = "s3" /\ last.ret = Err("Network")

\* an S3 Store holds a lone lead byte and the read as String returned DecodeError
W_C19_LoneLeadByteInBucket ==
    /\ last.op = "read"
    /\ last.T = "String"
    /\ last.ret = Err("DecodeError")
    /\ primary.kind = "s3"
    /\ Holds(primary, last.path) = Some(<<195>>)

\* what the calls that do not change a Store return on it, for every path
Observe(st) ==
    [q \in StorePaths |->
        [file_exists |-> StoreFileExists(st, q, "ok"),
         read |-> StoreRead(st, q, "Vec<u8>", "ok")]]

\* C20: after write(p, b) returned Ok, file_exists(p) is true and read(p) is b,
\* whether p held nothing, held b already or held other bytes; when p held b
\* already, nothing a call returns has changed; what the calls return for the
\* other paths is as before.
C20_WriteIsOverwriteIdempotent ==
    [][(last'.op = "write" /\ last'.ret.ok) =>
          LET p == last'.path
              b == last'.content
          IN /\ Observe(primary')[p] =
                    [file_exists |-> [ok |-> TRUE, val |-> TRUE],
                     read |-> [ok |-> TRUE, val |-> b]]
             /\ Holds(primary, p) = Some(b) => Observe(primary') = Observe(primary)
             /\ \A q \in StorePaths \ {p} :
                    Observe(primary')[q] = Observe(primary)[q]]_vars

\* the paths of the objects a Store holds under the directory d
Under(st, d) == {p \in TreePaths : Holds(st, p) # None /\ StartsWith(p, d) /\ p # d}

\* nothing exists at p: no object at p, none under p, and no directory kept at p
\* (a directory of the file system, an entry of the in-memory directory index)
NothingAt(st, p) ==
    /\ Holds(st, p) = None
    /\ Under(st, p) = {}
    /\ st.kind = "disk" => ~FsExists(st.fs, PathJoin(st.location, p))
    /\ st.kind = "inmem" => p \notin DOMAIN st.directory

C23_DeleteDirectoryExactFrame ==
    (last.op = "delete_directory" /\ last.ret.ok) =>
        \A p \in TreePaths :
            IF StartsWith(p, last.path) /\ p # last.path
            THEN Holds(primary, p) = None
            ELSE Holds(primary, p) = Holds(last.before, p)

\* C24: in every reachable state, delete_directory(d) called on a Store that
\* holds no object under d fails with ResourceNotFound, also when the objects
\* under d were all removed by delete before.
C24_EmptyPrefixIsResourceNotFound ==
    (last.op = "delete_directory" /\ Under(last.before, last.path) = {}) =>
        \/ last.ret = Err("ResourceNotFound")
        \/ last.before.kind = "s3" /\ last.ret = Err("Network")

\* C25: on the in-memory driver as on the disk driver, delete_directory(d) called
\* while at least one object lies under d, at any depth, returns Ok and leaves no
\* object under d.
C25_DeleteDirectoryIsRecursive ==
    (/\ last.op = "delete_directory"
     /\ last.before.kind \in {"inmem", "disk"}
     /\ Under(last.before, last.path) # {}) =>
        /\ last.ret.ok
        /\ Under(primary, last.path) = {}

\* C26: read(p) on a path at which nothing exists fails with ResourceNotFound on
\* every driver (in memory, disk, S3, Azure, GCP) whose service answers; the
\* missing object is never reported as Any.
C26_ReadOfMissingIsResourceNotFound ==
    (last.op = "read" /\ NothingAt(last.before, last.path)) =>
        \/ last.ret = Err("ResourceNotFound")
        \/ last.before.kind = "s3" /\ last.ret = Err("Network")

\* the io::ErrorKind the file system call of the disk call recorded in l failed
\* with, None when no file system call of it failed
IoFailure(l) ==
    LET fs == l.before.fs
        full == PathJoin(l.before.location, l.path)
        made == IF Parent(full) # None /\ ~FsExists(fs, Unwrap(Parent(full)))
                THEN FsCreateDirAll(fs, Unwrap(Parent(full)))
                ELSE [res |-> Ok, fs |-> fs]
        OfRes(res) == IF res.ok THEN None ELSE Some(res.err)
    IN IF l.op = "read" THEN OfRes(FsRead(fs, full))
       ELSE IF l.op = "write"
       THEN IF ~made.res.ok THEN OfRes(made.res)
            ELSE OfRes(FsWrite(made.fs, full, l.content).res)
       ELSE IF l.op = "delete" /\ FsExists(fs, full) THEN OfRes(FsRemoveFile(fs, full).res)
       ELSE IF l.op = "delete_directory" /\ FsExists(fs, full)
       THEN OfRes(FsRemoveDirAll(fs, full).res)
       ELSE None

\* C27: every call on a disk Store returns, and one whose file system call
\* failed with an io::ErrorKind other than NotFound returns DriverError::Any.
C27_DiskErrorConversionReturnsAny ==
    (primary.kind = "disk" /\ last.op # "new") =>
        /\ pc = "idle"
        /\ (IoFailure(last) # None /\ IoFailure(last) # Some("NotFound")) =>
               last.ret = Err("Any")

\* C28: the clone of an in-memory Store starts with the objects of the original,
\* and from then on a call made on one of the two changes nothing of the other.
C28_CloneIsAnIndependentCopy ==
    [][/\ last'.op = "clone" =>
              /\ stores'[last'.name].files = primary.files
              /\ stores'[last'.name].directory = primary.directory
              /\ primary' = primary
       /\ last'.op \in {"write", "read", "file_exists", "delete", "delete_directory",
                        "last_modified"} =>
              IF last'.ref = PrimaryRef THEN stores' = stores ELSE primary' = primary]_vars

\* the clone still holds the body it copied after the original was overwritten
W_C28_OriginalOverwrittenAfterClone ==
    /\ last.op = "write"
    /\ last.ref = PrimaryRef
    /\ last.ret.ok
    /\ NameA \in DOMAIN stores
    /\ Holds(stores[NameA], last.path) = Some(<<99>>)
    /\ Holds(primary, last.path) = Some(<<120>>)

\* C29: after delete(p) returned Ok, file_exists(p) returns false and read(p)
\* fails with ResourceNotFound, and every other object, the siblings in the
\* directory of p included, is there with the body it had.
C29_DeleteRemovesExactlyOne ==
    (last.op = "delete" /\ last.ret.ok) =>
        /\ StoreFileExists(primary, last.path, "ok") = [ok |-> TRUE, val |-> FALSE]
        /\ StoreRead(primary, last.path, "Vec<u8>", "ok") = Err("ResourceNotFound")
        /\ \A q \in TreePaths \ {last.path} : Holds(primary, q) = Holds(last.before, q)

\* the positions, in call order, of the calls that failed
FailedCalls == {i \in 1..Len(outcomes) : ~outcomes[i].res.ok}

\* the calls of a fan-out: the targets in order, each at most once, never more
\* than there are targets; when it has returned, every target under
\* ContinueOnFailure and under StopOnFailure the targets up to the first that
\* failed
FanOutCallsBounded ==
    pc \in {"loop", "call", "done"} =>
        /\ Len(invoked) <= Len(Targets)
        /\ \A i \in 1..Len(invoked) : invoked[i] = Targets[i].key
        /\ \A i, j \in 1..Len(invoked) : invoked[i] = invoked[j] => i = j
        /\ pc = "done" =>
               /\ result # None
               /\ Len(outcomes) = Len(invoked)
               /\ IF Unwrap(mirror).policy = "ContinueOnFailure" \/ FailedCalls = {}
                  THEN Len(invoked) = Len(Targets)
                  ELSE FailedCalls = {Len(invoked)}

\* C30: when every Store call returns, a fan-out that began returns a result,
\* after at most one call per target: one call for each of the N targets under
\* ContinueOnFailure, the calls up to the first failing target under
\* StopOnFailure, and no target called twice.
C30_FanOutTerminates ==
    /\ []FanOutCallsBounded
    /\ (pc \in {"loop", "call"}) ~> (pc = "done" /\ result # None)

\* a fan-out under StopOnFailure returned after the second of three targets failed
W_C30_StoppedAtSecondOfThree ==
    /\ pc = "done"
    /\ Unwrap(mirror).policy = "StopOnFailure"
    /\ Len(Targets) = 3
    /\ Len(invoked) = 2
    /\ FailedCalls = {2}

\* C31: for the error type of every S3 operation, a response with status 404
\* and a NoSuchKey or NotFound service error become ResourceNotFound, a timeout
\* and a dispatch failure become Network, and every other error, a response
\* with another status included, becomes Any.
C31_S3ErrorTranslationIsUniform ==
    last.op = "into" =>
        LET kind == last.kind
            expected ==
                IF kind.variant = "ResponseError" /\ kind.status = 404
                THEN "ResourceNotFound"
                ELSE IF kind.variant = "ServiceError"
                        /\ kind.err \in {"NoSuchKey", "NotFound"}
                THEN "ResourceNotFound"
                ELSE IF kind.variant \in {"TimeoutError", "DispatchFailure"}
                THEN "Network"
                ELSE "Any"
        IN last.ret = Err(expected)

\* C32: when add_mirrors(group, names) returns an error, the groups and the
\* list of each, an earlier list of group itself included, the registry, the
\* policy and the primary Store are as before the call.
C32_FailedAddMirrorsChangesNothing ==
    [][(last'.op = "add_mirrors" /\ ~last'.ret.ok) =>
          /\ mirrors' = mirrors
          /\ stores' = stores
          /\ mirrors_policy' = mirrors_policy
          /\ primary' = primary]_vars

\* a group keeps its list after a call that named it with an unregistered store
W_C32_RejectedRedefinition ==
    /\ last.op = "add_mirrors"
    /\ ~last.ret.ok
    /\ last.name \in DOMAIN mirrors
    /\ mirrors[last.name] # last.names
    /\ mirrors[last.name] # <<>>
    /\ DOMAIN stores # {}

\* C33: in every state new, add_stores, add_mirrors and set_mirrors_policy lead
\* to, every name in the list of every group is a key of the registry, and the
\* Mirror of a group has a target for every name of its list.
C33_GroupMembersAreRegistered ==
    /\ \A g \in DOMAIN mirrors :
           \A i \in 1..Len(mirrors[g]) : mirrors[g][i] \in DOMAIN stores
    /\ (last.op = "mirror" /\ mirror # None) =>
           \A i \in 1..Len(mirrors[last.name]) :
               \E j \in 1..Len(Targets) :
                   /\ Targets[j].key = mirrors[last.name][i]
                   /\ Targets[j].val = StoreRef(mirrors[last.name][i])

\* two groups are defined, one with two members, and a member is registered again
W_C33_MemberRegisteredAgain ==
    /\ last.op = "add_stores"
    /\ DOMAIN mirrors = GroupNames
    /\ \E g \in DOMAIN mirrors :
           /\ Len(mirrors[g]) = 2
           /\ mirrors[g][1] # mirrors[g][2]
           /\ mirrors[g][1] \in DOMAIN last.given
           /\ mirrors[g][1] \in DOMAIN last.old
    /\ mirrors_policy = "StopOnFailure"

\* C34: a group holds store names, not Stores.  add_stores leaves every group's
\* list as it is and puts the given Store under each given name, also a name that
\* a group lists; mirror(group) pairs each member name with the entry the registry
\* holds for it when mirror is called; and each call of the fan-out is made on the
\* Store registered under the target's name, whose state it leaves there.
C34_GroupsHoldNamesNotStores ==
    [][/\ last'.op = "add_stores" =>
             /\ mirrors' = mirrors
             /\ \A n \in DOMAIN last'.given : stores'[n] = last'.given[n]
       /\ (last'.op = "mirror" /\ mirror = None /\ mirror' # None) =>
             \A j \in 1..Len(Unwrap(mirror').stores) :
                 LET t == Unwrap(mirror').stores[j]
                 IN /\ Contains(mirrors[last'.name], t.key)
                    /\ t.val = StoreRef(t.key)
                    /\ t.key \in DOMAIN stores
       /\ (pc = "call" /\ pc' # "call" /\ Target.val.field = "stores") =>
             \E net \in StoreNet(stores[Target.key]) :
                 LET call == StoreCall(stores[Target.key], Unwrap(req), net)
                 IN /\ outcomes' = Append(outcomes, [name |-> Target.key, res |-> call.res])
                    /\ stores' = [stores EXCEPT ![Target.key] = call.st]]_vars

\* "a" was registered in memory when "foo" was defined with it, was registered
\* again as an S3 Store, and the write through mirror("foo") landed in the bucket
\* of that Store
W_C34_WriteLandedInNewStore ==
    /\ pc = "done"
    /\ last.op = "mirror"
    /\ last.name = "foo"
    /\ result = Some(Ok)
    /\ Unwrap(req).op = "write"
    /\ TargetKeys = <<NameA>>
    /\ PreStore(StoreRef(NameA)) = S3New
    /\ stores[NameA].kind = "s3"
    /\ Holds(stores[NameA], Unwrap(req).path) = Some(Unwrap(req).content)
    /\ NameZ \in DOMAIN stores
    /\ stores[NameZ].kind = "inmem"

\* how often x occurs in the sequence s
Occurrences(s, x) == Cardinality({i \in 1..Len(s) : s[i] = x})

BothWroteOk ==
    /\ parked # None
    /\ pc = "done"
    /\ Unwrap(parked).pc = "done"
    /\ result = Some(Ok)
    /\ Unwrap(parked).result = Some(Ok)
    /\ Unwrap(req).op = "write"
    /\ Unwrap(Unwrap(parked).req).op = "write"
    /\ Unwrap(req).path = Unwrap(Unwrap(parked).req).path
    /\ Unwrap(req).content # Unwrap(Unwrap(parked).req).content

\* C36: when two tasks have written the same path with different contents through
\* Mirrors of the same MultiStore taken with mirror_stores_from_primary, and both
\* fan-outs returned Ok, every target holds the same content at that path.
C36_ConcurrentFanOutsConverge ==
    BothWroteOk =>
        \A i, j \in 1..Len(Targets) :
            Holds(Deref(Targets[i].val), Unwrap(req).path) =
                Holds(Deref(Targets[j].val), Unwrap(req).path)

\* the in-memory Store after the call r was made on st and returned
InMemAfter(st, r) ==
    IF r.op = "write" THEN InMemWrite(st, r.path, r.content).st
    ELSE IF r.op = "delete" THEN InMemDelete(st, r.path).st
    ELSE InMemDeleteDirectory(st, r.path).st

\* both tasks made one call on the in-memory primary and both calls returned; one
\* was a write and the other a delete or a delete_directory
WriteRacedDelete ==
    /\ parked # None
    /\ last.op = "spawn"
    /\ pc = "done"
    /\ Unwrap(parked).pc = "done"
    /\ Unwrap(req).op = "write"
    /\ Unwrap(Unwrap(parked).req).op \in {"delete", "delete_directory"}

\* C37: the calls of the in-memory driver are atomic.  When a write under d ran
\* concurrently with a delete or a delete_directory(d) on the same driver, the two
\* maps of the driver end as one of the two sequential orders of the calls leaves
\* them.
C37_InMemCallsAreAtomic ==
    WriteRacedDelete =>
        LET w == Unwrap(req)
            d == Unwrap(Unwrap(parked).req)
        IN primary \in {InMemAfter(InMemAfter(last.before, w), d),
                        InMemAfter(InMemAfter(last.before, d), w)}

\* every stored file that has a parent is listed under its parent
FilesAreListed(st) ==
    \A f \in DOMAIN st.files :
        Parent(f) # None =>
            /\ Unwrap(Parent(f)) \in DOMAIN st.directory
            /\ Contains(st.directory[Unwrap(Parent(f))], f)

\* every path the directory index lists is a stored file
ListedAreFiles(st) ==
    \A k \in DOMAIN st.directory :
        \A i \in 1..Len(st.directory[k]) : st.directory[k][i] \in DOMAIN st.files

\* no path is listed more than once under the same parent
ListedOnce(st) ==
    \A k \in DOMAIN st.directory :
        \A i, j \in 1..Len(st.directory[k]) :
            st.directory[k][i] = st.directory[k][j] => i = j

\* C38: after any series of write, delete and delete_directory calls made one
\* after the other on the in-memory driver, its two maps agree: every stored file
\* with a parent is listed under its parent, every listed path is a stored file,
\* and no path is listed twice under the same parent.
C38_InMemMapsAgree ==
    primary.kind = "inmem" =>
        /\ FilesAreListed(primary)
        /\ ListedAreFiles(primary)
        /\ ListedOnce(primary)

====
